---- MODULE Spec2Model ----
(***************************************************************************)
(* Week / entry lifecycle logic of the autobiography app: week-number      *)
(* resolution from a profile's start date, entry status normalisation,     *)
(* the prompt-catalog join and the dashboard aggregations.                 *)
(***************************************************************************)
EXTENDS Integers, Sequences, FiniteSets, TLC

VARIABLES
    start_date,   \* profiles.start_date of the user
    tzOffset,     \* offset (ms) of the server's local time zone from UTC
    now,          \* the wall clock, an instant
    obs,          \* the last current-week computation: where, when, result
    dbPrompts,    \* table prompts: the active prompts, ordered by week
    dbEntries,    \* table entries: the rows of the user
    page,         \* the page (and revision) the user has open
    view,         \* React state of that page
    render,       \* what the page derives from its state and shows
    savedSnapshotRef, \* write view: the snapshot of the draft as last saved
    isSavingRef,  \* write view: a save is in flight
    timers,       \* write view: the interval timers that are set
    calls,        \* save calls that await the storage
    last,         \* the last handler call: what was called and what it did
    profiles,     \* table profiles: the rows of the users
    outbox,       \* the emails handed to the email provider
    cron,         \* the weekly email job: its position and its counters
    api           \* the last request to an admin endpoint and its response

weekVars == <<start_date, tzOffset, now, obs>>

writeVars == <<savedSnapshotRef, isSavingRef, timers, calls>>

appVars == <<dbPrompts, dbEntries, page, view, render, writeVars, last>>

srvVars == <<profiles, outbox, cron, api>>

vars == <<start_date, tzOffset, now, obs, dbPrompts, dbEntries, page, view, render,
          savedSnapshotRef, isSavingRef, timers, calls, last,
          profiles, outbox, cron, api>>

(***************************************************************************)
(* JavaScript numbers that the week computation can produce.               *)
(***************************************************************************)
Num(n) == [kind |-> "number", v |-> n]

NaN == [kind |-> "NaN", v |-> 0]

JsNull == [kind |-> "null", v |-> 0]

NotLoaded == [kind |-> "none", v |-> 0]

Min(a, b) == IF a < b THEN a ELSE b

Max(a, b) == IF a > b THEN a ELSE b

(***************************************************************************)
(* Instants.  Date.getTime() is a count of milliseconds; it is kept as a   *)
(* pair (day, ms of the day) with 0 <= ms < msPerDay, so that              *)
(* getTime() = day * msPerDay + ms.                                        *)
(***************************************************************************)
msPerDay == 24 * 60 * 60 * 1000

Instant(d, m) == [kind |-> "number", day |-> d + (m \div msPerDay), ms |-> m % msPerDay]

InvalidDate == [kind |-> "NaN", day |-> 0, ms |-> 0]

\* Math.floor((a.getTime() - b.getTime()) / msPerDay)
FloorDays(a, b) ==
    IF a.kind = "NaN" \/ b.kind = "NaN" THEN NaN
    ELSE Num((a.day - b.day) + ((a.ms - b.ms) \div msPerDay))

Before(a, b) == a.day < b.day \/ (a.day = b.day /\ a.ms < b.ms)

(***************************************************************************)
(* profiles.start_date as the pages receive it.                            *)
(***************************************************************************)
NullDate == [kind |-> "null", day |-> 0]

EmptyDate == [kind |-> "empty", day |-> 0]

BadDate == [kind |-> "invalid", day |-> 0]

IsoDate(d) == [kind |-> "date", day |-> d]

\* JS truthiness of the string | null
Truthy(s) == s.kind \notin {"null", "empty"}

\* new Date(startDateISO + "T00:00:00Z")
ParseUTC(s) == IF s.kind = "date" THEN Instant(s.day, 0) ELSE InvalidDate

\* new Date(`${startDate}T00:00:00`): midnight in the server's local time
ParseLocal(s, tz) == IF s.kind = "date" THEN Instant(s.day, 0 - tz) ELSE InvalidDate

\* Math.floor(days / 7) + 1
WeekOfDays(days) == IF days.kind = "NaN" THEN NaN ELSE Num((days.v \div 7) + 1)

MaxWeek == 52

\* a clamp that forgets the lower bound
MaxMinNoFloor(n) == IF n.kind = "NaN" THEN NaN ELSE Num(Min(MaxWeek, n.v))

\* a clamp that wraps around after week 52
MaxMinWrap(n) == IF n.kind = "NaN" THEN NaN ELSE Num(Max(1, ((n.v - 1) % MaxWeek) + 1))

\* Math.max(1, Math.min(52, n)) on a number or NaN
MaxMin(n) == IF n.kind = "NaN" THEN NaN ELSE Num(Max(1, Min(MaxWeek, n.v)))

(***************************************************************************)
(* Week-number resolution, one definition per copy in the source.          *)
(***************************************************************************)
\* write view, per-week dashboard: clampWeek guards non-finite numbers
clampWeek(n) == IF n.kind = "NaN" THEN Num(1) ELSE MaxMin(n)

weekFromStartDate(s, t) == clampWeek(WeekOfDays(FloorDays(t, ParseUTC(s))))

\* questions list, dashboard overview: clampWeek without the guard
clampWeekUnguarded(n) == MaxMin(n)

weekFromStartDateUnguarded(s, t) ==
    clampWeekUnguarded(WeekOfDays(FloorDays(t, ParseUTC(s))))

\* weekly email job
getWeekFromStartDate(s, t) == MaxMin(WeekOfDays(FloorDays(t, ParseUTC(s))))

\* admin users-overview
clamp(n, lo, hi) == Max(lo, Min(hi, n))

computeCurrentWeek(s, t, tz) ==
    IF ~Truthy(s) THEN JsNull
    ELSE IF ParseLocal(s, tz).kind = "NaN" THEN JsNull
    ELSE Num(clamp(WeekOfDays(FloorDays(t, ParseLocal(s, tz))).v, 1, MaxWeek))

\* const cw = prof?.start_date ? weekFromStartDate(prof.start_date) : 1
LoadedWeek(s, t) == IF Truthy(s) THEN weekFromStartDate(s, t) ELSE Num(1)

LoadedWeekUnguarded(s, t) ==
    IF Truthy(s) THEN weekFromStartDateUnguarded(s, t) ELSE Num(1)

\* the job selects profiles whose start_date is not null and skips
\* (continue) those whose start_date is falsy
CronSelected(s) == s.kind # "null" /\ Truthy(s)

(***************************************************************************)
(* Entries and prompts.  A status or content that is null in the database  *)
(* is the marker Null; content is a sequence of characters.                *)
(***************************************************************************)
Null == "<null>"

NullContent == <<Null>>

\* a row of entries; themes stands for the categorisation columns life_stage,
\* tone, key_people, locations and themes, which the code treats alike
EntryRow(id, w, t, c, th, st) ==
    [id |-> id, week |-> w, title |-> t, content |-> c, themes |-> th, status |-> st]

\* a row without title and categorisation
Entry(id, w, c, st) == EntryRow(id, w, NullContent, c, NullContent, st)

\* Map.get / Array.find finding nothing
Undefined == Entry(0, 0, NullContent, Null)

Prompt(w) == [week |-> w]

\* prompts.find finding nothing: null
NoPrompt == Prompt(0)

Whitespace == {" ", "\t", "\n"}

RECURSIVE TrimStart(_)
TrimStart(s) ==
    IF s # <<>> /\ Head(s) \in Whitespace THEN TrimStart(Tail(s)) ELSE s

RECURSIVE TrimEnd(_)
TrimEnd(s) ==
    IF s # <<>> /\ s[Len(s)] \in Whitespace
    THEN TrimEnd(SubSeq(s, 1, Len(s) - 1))
    ELSE s

\* String.prototype.trim
trim(s) == TrimEnd(TrimStart(s))

\* (content ?? "")
OrEmpty(c) == IF c = NullContent THEN <<>> ELSE c

\* (e.content ?? "").trim().length > 0
hasText(e) == Len(trim(OrEmpty(e.content))) > 0

\* a normaliser that ignores letter case and accepts "completed"
normalizeEntryStatusLoose(raw) ==
    IF raw \in {"complete", "Complete", "completed"} THEN "complete" ELSE "in_progress"

normalizeEntryStatus(raw) == IF raw = "complete" THEN "complete" ELSE "in_progress"

\* a classifier that trusts the stored status of a blank entry
deriveDisplayStatusNoBlank(entry) ==
    IF entry = Undefined THEN "Open"
    ELSE IF normalizeEntryStatus(entry.status) = "complete" THEN "Complete"
    ELSE IF ~hasText(entry) THEN "Open"
    ELSE "In Progress"

deriveDisplayStatus(entry) ==
    IF entry = Undefined THEN "Open"
    ELSE IF ~hasText(entry) THEN "Open"
    ELSE IF normalizeEntryStatus(entry.status) = "complete" THEN "Complete"
    ELSE "In Progress"

\* part_003: Open first, then In Progress, then Complete
statusRank(s) == IF s = "Open" THEN 0 ELSE IF s = "In Progress" THEN 1 ELSE 2

SetMin(S) == CHOOSE x \in S : \A y \in S : x <= y

\* the value of a sequence expression, computed once
Strict(s) == s \o <<>>

\* for (const e of entries) m.set(e.week, e), from the i-th row on
RECURSIVE MapSetAll(_, _, _)
MapSetAll(m, entries, i) ==
    IF i > Len(entries) THEN m
    ELSE MapSetAll([m EXCEPT ![entries[i].week] = entries[i]], entries, i + 1)

\* const m = new Map(); for (const e of entries) m.set(e.week, e): a later
\* row of a week replaces an earlier one; the map is held as the sequence of
\* its values for the weeks 1..52
entryByWeek(entries) ==
    MapSetAll(Strict([w \in 1..MaxWeek |-> Undefined]), entries, 1)

\* entryByWeek.get(w)
MapGet(m, w) == IF w \in DOMAIN m THEN m[w] ELSE Undefined

\* entries.find((x) => x.week === w) ?? null
findEntry(entries, w) ==
    LET idx == {i \in DOMAIN entries : entries[i].week = w}
    IN  IF idx = {} THEN Undefined ELSE entries[SetMin(idx)]

\* Math.round(num / den) for num >= 0, den > 0
MathRound(num, den) == (2 * num + den) \div (2 * den)

(***************************************************************************)
(* Derived values of the list pages (useMemo), per revision in the source. *)
(* A page state v has the fields prompts, entries, currentWeek, busyWeek,  *)
(* message and loading.                                                    *)
(***************************************************************************)
Row(w, st) == [week |-> w, displayStatus |-> st]

\* a join that pairs the i-th prompt with the i-th entry
AllRowsByIndex(prompts, entries) ==
    Strict([i \in DOMAIN prompts |->
        Row(prompts[i].week,
            deriveDisplayStatus(IF i \in DOMAIN entries THEN entries[i] ELSE Undefined))])

\* prompts.map((p) => ({week, displayStatus: deriveDisplayStatus(entryByWeek.get(p.week))}))
AllRows(prompts, entries) ==
    LET m == entryByWeek(entries)
    IN  Strict([i \in DOMAIN prompts |->
            Row(prompts[i].week, deriveDisplayStatus(MapGet(m, prompts[i].week)))])

OnlyStatus(rows, st) == SelectSeq(rows, LAMBDA r : r.displayStatus = st)

\* DashboardOverviewClient (part_004): rowLists
rowLists(prompts, entries) ==
    LET mapped == AllRows(prompts, entries)
        \* .sort((a, b) => a.week - b.week)
        all == SortSeq(mapped, LAMBDA a, b : a.week < b.week)
    IN  [complete |-> OnlyStatus(all, "Complete"),
         notComplete |-> OnlyStatus(all, "In Progress") \o OnlyStatus(all, "Open")]

\* DashboardOverviewClient (part_003): rows, Open first, newest first
rowsRanked(prompts, entries) ==
    LET computed == AllRows(prompts, entries)
    IN  SortSeq(computed,
                LAMBDA a, b :
                    IF statusRank(a.displayStatus) # statusRank(b.displayStatus)
                    THEN statusRank(a.displayStatus) < statusRank(b.displayStatus)
                    ELSE b.week < a.week)

\* QuestionsClient (later revision): rows
rowsQuestions(prompts, entries) == AllRows(prompts, entries)

\* QuestionsClient (earlier revision): rows with an answered flag
rowsAnswered(prompts, entries) ==
    LET m == entryByWeek(entries)
    IN  Strict([i \in DOMAIN prompts |->
            LET e == MapGet(m, prompts[i].week)
            IN  [week |-> prompts[i].week, answered |-> (e # Undefined /\ hasText(e))]])

\* DashboardOverviewClient (part_004): lifecycle, a loop over the weeks 1..52
lifecycle(entries) ==
    LET m == entryByWeek(entries)
        st == Strict([w \in 1..MaxWeek |-> deriveDisplayStatus(MapGet(m, w))])
    IN  [openCount |-> Cardinality({w \in 1..MaxWeek : st[w] = "Open"}),
         inProgressCount |-> Cardinality({w \in 1..MaxWeek : st[w] = "In Progress"}),
         completeCount |-> Cardinality({w \in 1..MaxWeek : st[w] = "Complete"})]

\* DashboardOverviewClient (part_003): lifecycle, a loop over entryByWeek.values()
lifecycleAnswered(entries) ==
    LET m == entryByWeek(entries)
        withText == {w \in DOMAIN m : m[w] # Undefined /\ hasText(m[w])}
        answered == Cardinality(withText)
        complete == Cardinality({w \in withText :
                        normalizeEntryStatus(m[w].status) = "complete"})
    IN  [answered |-> answered,
         inProgress |-> Max(0, answered - complete),
         complete |-> complete,
         remaining |-> Max(0, MaxWeek - complete)]

\* a percentage that truncates instead of rounding
progressPctFloor(completeCount) == (completeCount * 100) \div MaxWeek

\* Math.round((lifecycle.completeCount / 52) * 100)
progressPct(completeCount) == MathRound(completeCount * 100, MaxWeek)

\* QuestionsClient (later revision): allCompleted
allCompleted(prompts, entries) ==
    IF Len(prompts) # MaxWeek THEN FALSE
    ELSE LET m == entryByWeek(entries)
         IN  \A i \in DOMAIN prompts :
                LET e == MapGet(m, prompts[i].week)
                IN  /\ e # Undefined
                    /\ hasText(e)
                    /\ normalizeEntryStatus(e.status) = "complete"

\* QuestionsClient (earlier revision): allCompleted
allCompletedAnswered(prompts, entries) ==
    /\ Len(prompts) = MaxWeek
    /\ LET m == entryByWeek(entries)
       IN  \A i \in DOMAIN prompts :
              LET e == MapGet(m, prompts[i].week)
              IN  e # Undefined /\ hasText(e)

\* WeekClient: openWeeks, the prompts whose week is not Complete
openWeeks(prompts, entries) ==
    LET byWeek == entryByWeek(entries)
        kept == SelectSeq(prompts,
                    LAMBDA p :
                        LET e == MapGet(byWeek, p.week)
                        IN  IF e = Undefined THEN TRUE
                            ELSE IF ~hasText(e) THEN TRUE
                            ELSE normalizeEntryStatus(e.status) # "complete")
    IN  Strict([i \in DOMAIN kept |-> kept[i].week])

\* part_007 and DashboardClient: openWeeks, the prompts without a written entry
openWeeksBlank(prompts, entries) ==
    LET byWeek == entryByWeek(entries)
        kept == SelectSeq(prompts,
                    LAMBDA p :
                        LET e == MapGet(byWeek, p.week)
                        IN  IF e = Undefined THEN TRUE
                            ELSE Len(trim(OrEmpty(e.content))) = 0)
    IN  Strict([i \in DOMAIN kept |-> kept[i].week])

OverviewPages == {"overview_a", "overview_b", "overview_c"}

\* the write view: WeekClient.tsx and its revision in part_007
WritePages == {"week", "week_b"}

QuestionsPages == {"questions_a", "questions_b"}

\* what the page shows for its state v
Render(pg, v) ==
    IF pg \in {"overview_a", "overview_b"} THEN
        LET lc == lifecycle(v.entries)
            rl == rowLists(v.prompts, v.entries)
        IN  [lifecycle |-> lc,
             progressPct |-> progressPct(lc.completeCount),
             rowLists |-> rl,
             rows |-> rl.complete \o rl.notComplete]
    ELSE IF pg = "overview_c" THEN
        LET lc == lifecycleAnswered(v.entries)
        IN  [lifecycle |-> lc,
             progressPct |-> progressPct(lc.complete),
             rows |-> rowsRanked(v.prompts, v.entries)]
    ELSE IF pg = "questions_b" THEN
        [allCompleted |-> allCompleted(v.prompts, v.entries),
         rows |-> rowsQuestions(v.prompts, v.entries)]
    ELSE IF pg = "questions_a" THEN
        [allCompleted |-> allCompletedAnswered(v.prompts, v.entries),
         rows |-> rowsAnswered(v.prompts, v.entries)]
    ELSE IF pg = "week" THEN
        [rows |-> <<>>, openWeeks |-> openWeeks(v.prompts, v.entries)]
    ELSE IF pg \in {"week_b", "dashboard"} THEN
        [rows |-> <<>>, openWeeks |-> openWeeksBlank(v.prompts, v.entries)]
    ELSE [rows |-> <<>>]

(***************************************************************************)
(* Admin users-overview: the statistics of one user.                       *)
(***************************************************************************)
\* String(s ?? "").toLowerCase().trim() on the status vocabulary
LowerTrim(s) ==
    IF s = Null THEN ""
    ELSE IF s = "Complete" THEN "complete"
    ELSE s

normalizeStatus(s) ==
    LET v == LowerTrim(s)
    IN  IF v \in {"complete", "completed"} THEN "complete"
        ELSE IF v \in {"in_progress", "in progress", "progress"} THEN "in_progress"
        ELSE "open"

statsOfUser(entries) ==
    LET n(st) == Cardinality({i \in DOMAIN entries : normalizeStatus(entries[i].status) = st})
    IN  [open |-> n("open"), in_progress |-> n("in_progress"), complete |-> n("complete")]

\* Math.round((s.complete / 52) * 100)
percentComplete(complete) == MathRound(complete * 100, MaxWeek)

overviewRow(entries, s, t, tz) ==
    LET st == statsOfUser(entries)
    IN  [current_week |-> computeCurrentWeek(s, t, tz),
         open_count |-> st.open,
         in_progress_count |-> st.in_progress,
         complete_count |-> st.complete,
         percent_complete |-> percentComplete(st.complete)]

(***************************************************************************)
(* Admin pages that read the tables themselves: the user list of           *)
(* AdminClient (first revision) and the week table of UserClient.          *)
(***************************************************************************)
\* prompts.length > 0 ? prompts.length : 52
promptCount(prompts) == IF Len(prompts) > 0 THEN Len(prompts) ELSE MaxWeek

\* typeof v === "string" && v.trim().length > 0
isNonEmptyText(c) == c # NullContent /\ Len(trim(c)) > 0

\* AdminClient: users, the counts of one user
usersRow(prompts, entries) ==
    LET m == entryByWeek(entries)
        n == promptCount(prompts)
        counted == {w \in 1..n : MapGet(m, w) # Undefined
                                  /\ isNonEmptyText(MapGet(m, w).content)}
        complete == Cardinality({w \in counted : MapGet(m, w).status = "complete"})
        in_progress == Cardinality(counted) - complete
    IN  [complete |-> complete, in_progress |-> in_progress,
         open |-> Max(0, n - (complete + in_progress))]

\* UserClient: weeks, a loop over 1..promptCount
weeks(prompts, entries) ==
    LET m == entryByWeek(entries)
    IN  Strict([w \in 1..promptCount(prompts) |->
            LET e == MapGet(m, w)
            IN  Row(w, IF e = Undefined \/ ~isNonEmptyText(e.content) THEN "Open"
                       ELSE IF e.status = "complete" THEN "Complete"
                       ELSE "In Progress")])

(***************************************************************************)
(* Page state.                                                             *)
(***************************************************************************)
\* the useState defaults of a page
InitialView ==
    [loading |-> TRUE, prompts |-> <<>>, entries |-> <<>>, currentWeek |-> Num(1),
     busyWeek |-> 0, message |-> Null,
     weekParam |-> 0, selectedWeek |-> 1, prompt |-> NoPrompt, entry |-> Undefined,
     title |-> <<>>, content |-> <<>>, themes |-> <<>>,
     entryStatus |-> "in_progress", view |-> "write"]

\* currentSnapshot(): JSON.stringify of the draft
Snapshot(v) ==
    [selectedWeek |-> v.selectedWeek, title |-> v.title, content |-> v.content,
     themes |-> v.themes, entryStatus |-> v.entryStatus]

\* useRef(""): equal to no snapshot
EmptyRef ==
    [selectedWeek |-> 0, title |-> <<>>, content |-> <<>>, themes |-> <<>>,
     entryStatus |-> ""]

\* const isDirty = snapshot !== savedSnapshotRef.current
isDirty(v, ref) == Snapshot(v) # ref

\* what saveInternal reads from the render it was created in
Closure(v) ==
    [prompt |-> v.prompt, entry |-> v.entry, selectedWeek |-> v.selectedWeek,
     title |-> v.title, content |-> v.content, themes |-> v.themes,
     entryStatus |-> v.entryStatus]

\* the timer an effect sets: what its callback reads, and the time since it
\* was set
Timer(v, ref) == [isDirty |-> isDirty(v, ref), closure |-> Closure(v), age |-> 0]

\* an effect that sets a timer without clearing the one it set before
AutoSaveEffectLeaky(ts, v, ref) ==
    IF v.view # "write" THEN ts
    ELSE Append(ts, Timer(v, ref))

\* the auto-save effect: the cleanup of its last run (clearInterval), then
\* setInterval if the view is "write"; every value the callback reads is a
\* dependency, so the callback is that of the last render, and the effect
\* does not run when no dependency has changed
AutoSaveEffect(ts, v, ref) ==
    IF v.view # "write" THEN <<>>
    ELSE IF ts # <<>> /\ [ts[1] EXCEPT !.age = 0] = Timer(v, ref) THEN ts
    ELSE <<Timer(v, ref)>>

\* the record of a handler call
NoCall ==
    [op |-> "none", week |-> 0, wrote |-> FALSE, ok |-> FALSE,
     before |-> Null, prev |-> "none", asked |-> FALSE, confirmed |-> FALSE,
     called |-> FALSE, mode |-> "none", ended |-> FALSE]

Call(op) == [NoCall EXCEPT !.op = op]


\* the refs of a component that is not mounted
Unmounted ==
    /\ savedSnapshotRef = EmptyRef
    /\ isSavingRef = FALSE
    /\ timers = <<>>
    /\ calls = <<>>

(***************************************************************************)
(* The server: table profiles, the email provider, the weekly email job    *)
(* and the admin endpoints.                                                *)
(***************************************************************************)
\* a row of profiles
Profile(id, email, optIn, start, paused, disabled) ==
    [id |-> id, email |-> email, email_opt_in |-> optIn, start_date |-> start,
     email_paused |-> paused, disabled |-> disabled]

\* the row of the user of the pages
UserProfile == Profile("user", "user@x", TRUE, start_date, FALSE, FALSE)

\* the job is not running
NoJob ==
    [pc |-> "idle", run |-> 0, selected |-> <<>>, i |-> 0, sent |-> 0, skipped |-> 0,
     status |-> 0]

\* no request was made
NoRequest ==
    [endpoint |-> "none", token |-> "none", action |-> "none", target |-> "none",
     ok |-> FALSE, status |-> 0, reads |-> {}, writes |-> {}]

\* the server before any job or request
ServerIdle ==
    /\ profiles = <<UserProfile>>
    /\ outbox = <<>>
    /\ cron = NoJob
    /\ api = NoRequest

\* .eq("email_opt_in", true).not("start_date", "is", null)
CronQuery(rows) ==
    SelectSeq(rows, LAMBDA p : p.email_opt_in = TRUE /\ p.start_date.kind # "null")

\* !p.email
NoEmail(p) == p.email \in {Null, ""}

\* the reminder of a week handed to the email provider
WeeklyEmail(p, week, run) ==
    [kind |-> "weekly", to |-> p.email, id |-> p.id, week |-> week, run |-> run]

(***************************************************************************)
(* Bounds of the week model.                                               *)
(***************************************************************************)
MaxDay == 372

StartDays == {0, 3}

TzOffsets == {0 - 5 * 60 * 60 * 1000, 0, 2 * 60 * 60 * 1000}

DayMarks ==
    {d \in {0 - 8, 0 - 1} \cup {7 * k + r : k \in {0, 1, 2, 50, 51, 52, 53}, r \in {0, 6}} :
        d <= MaxDay}

MsMarks == {0, msPerDay - 60 * 60 * 1000, msPerDay - 1}

NowSet == {Instant(d, m) : d \in DayMarks, m \in MsMarks}

StartDates == {NullDate, EmptyDate, BadDate} \cup {IsoDate(d) : d \in StartDays}

Observe(site, w) == [site |-> site, at |-> now, week |-> w]

(***************************************************************************)
(* The week model: the clock advances, pages load and jobs run.            *)
(***************************************************************************)
InitWeek ==
    /\ start_date \in StartDates
    /\ tzOffset \in TzOffsets
    /\ now \in {t \in NowSet : t.day < 0}
    /\ obs = [site |-> "none", at |-> now, week |-> NotLoaded]
    /\ dbPrompts = <<>>
    /\ dbEntries = <<>>
    /\ page = "none"
    /\ view = InitialView
    /\ render = Render("none", InitialView)
    /\ Unmounted
    /\ ServerIdle
    /\ last = NoCall

\* time passes
Advance ==
    /\ \E t \in NowSet : Before(now, t) /\ now' = t
    /\ UNCHANGED <<start_date, tzOffset, obs, appVars, srvVars>>

\* WeekClient loadAll
WeekClientLoad ==
    /\ obs' = Observe("week", LoadedWeek(start_date, now))
    /\ UNCHANGED <<start_date, tzOffset, now, appVars, srvVars>>

\* DashboardClient loadAll
DashboardClientLoad ==
    /\ obs' = Observe("dashboard", LoadedWeek(start_date, now))
    /\ UNCHANGED <<start_date, tzOffset, now, appVars, srvVars>>

\* QuestionsClient load
QuestionsLoad ==
    /\ obs' = Observe("questions", LoadedWeekUnguarded(start_date, now))
    /\ UNCHANGED <<start_date, tzOffset, now, appVars, srvVars>>

\* DashboardOverviewClient load
OverviewLoad ==
    /\ obs' = Observe("overview", LoadedWeekUnguarded(start_date, now))
    /\ UNCHANGED <<start_date, tzOffset, now, appVars, srvVars>>

\* GET /api/cron/send-weekly, the iteration for this profile
CronRun ==
    /\ CronSelected(start_date)
    /\ obs' = Observe("cron", getWeekFromStartDate(start_date, now))
    /\ UNCHANGED <<start_date, tzOffset, now, appVars, srvVars>>

\* GET admin users-overview, the result row of this profile
AdminOverview ==
    /\ obs' = Observe("admin", computeCurrentWeek(start_date, now, tzOffset))
    /\ UNCHANGED <<start_date, tzOffset, now, appVars, srvVars>>

NextWeek ==
    \/ Advance
    \/ WeekClientLoad
    \/ DashboardClientLoad
    \/ QuestionsLoad
    \/ OverviewLoad
    \/ CronRun
    \/ AdminOverview

SpecWeek == InitWeek /\ [][NextWeek]_vars

(***************************************************************************)
(* Bounds of the application model.                                        *)
(***************************************************************************)
SmallCatalog == 10

\* the weeks whose entry varies freely, and the weeks a user acts on
EditWeekA == 2

EditWeekB == MaxWeek

EditWeeks == {EditWeekA, EditWeekB}

Contents == {NullContent, <<>>, <<" ", "\t">>, <<" ", "a", "\n">>}

RawStatuses == {Null, "", "draft", "in_progress", "complete", "Complete", "completed"}

Catalog(n) == Strict([i \in 1..n |-> Prompt(i)])

\* a catalog in which week 2 is not active
GapCatalog ==
    Strict([i \in 1..(MaxWeek - 1) |-> Prompt(IF i < EditWeekA THEN i ELSE i + 1)])

Absent == [present |-> FALSE, content |-> <<>>, status |-> Null]

Stored(c, st) == [present |-> TRUE, content |-> c, status |-> st]

KindsA ==
    {Absent} \cup {Stored(<<" ", "a", "\n">>, st) : st \in RawStatuses}
             \cup {Stored(c, st) : c \in Contents, st \in {"complete", "draft"}}

KindsB == {Absent, Stored(<<"a">>, "complete"), Stored(<<"a">>, "draft"),
           Stored(<<" ">>, "complete")}

\* the rows of a user who has the entry f[w] for each week w of W
EntriesOf(f) ==
    LET written == SelectSeq(Strict([w \in 1..MaxWeek |-> w]), LAMBDA w : f[w].present)
    IN  Strict([i \in DOMAIN written |->
            Entry(written[i], written[i], f[written[i]].content, f[written[i]].status)])

\* catalog and the weeks already written and marked complete
Setups ==
    {[prompts |-> Catalog(MaxWeek), done |-> 1..MaxWeek],
     [prompts |-> Catalog(MaxWeek), done |-> {}],
     [prompts |-> Catalog(MaxWeek - 1), done |-> 1..(MaxWeek - 1)],
     [prompts |-> Catalog(SmallCatalog), done |-> 1..SmallCatalog],
     [prompts |-> Catalog(SmallCatalog), done |-> {}],
     [prompts |-> GapCatalog, done |-> 1..MaxWeek]}

InitialEntries(done, ka, kb) ==
    EntriesOf(Strict([w \in 1..MaxWeek |->
                 IF w = EditWeekA THEN ka
                 ELSE IF w = EditWeekB THEN kb
                 ELSE IF w \in done THEN Stored(<<"a">>, "complete")
                 ELSE Absent]))

(***************************************************************************)
(* The application model: one user, one page open at a time.               *)
(***************************************************************************)
Init ==
    /\ start_date = IsoDate(0)
    /\ tzOffset = 0
    /\ now = Instant(8, 0)
    /\ obs = [site |-> "none", at |-> now, week |-> NotLoaded]
    /\ \E su \in Setups, ka \in KindsA, kb \in KindsB :
          /\ dbPrompts = su.prompts
          /\ dbEntries = InitialEntries(su.done, ka, kb)
    /\ page = "none"
    /\ view = InitialView
    /\ render = Render("none", InitialView)
    /\ Unmounted
    /\ ServerIdle
    /\ last = NoCall

Loaded(cw) ==
    [InitialView EXCEPT !.loading = FALSE, !.prompts = dbPrompts,
                        !.entries = dbEntries, !.currentWeek = cw]

\* the entries query fails after the profile and the prompts were read:
\* neither setPrompts nor setEntries is reached
LoadError(cw, msg) ==
    [InitialView EXCEPT !.loading = FALSE, !.currentWeek = cw, !.message = msg]

\* select("id, week, content, updated_at"): the rows come without a status
WithoutStatus(entries) ==
    Strict([i \in DOMAIN entries |-> [entries[i] EXCEPT !.status = Null]])

\* DashboardOverviewClient (part_004, first revision): load; a failing
\* entries query is not looked at and leaves entryRows null
LoadOverviewA ==
    /\ page = "none"
    /\ page' = "overview_a"
    /\ \E ok \in BOOLEAN :
          view' = IF ok THEN Loaded(LoadedWeekUnguarded(start_date, now))
                  ELSE [Loaded(LoadedWeekUnguarded(start_date, now)) EXCEPT !.entries = <<>>]
    /\ render' = Render(page', view')
    /\ UNCHANGED <<weekVars, srvVars, dbPrompts, dbEntries, writeVars, last>>

\* DashboardOverviewClient (part_004, second revision): load
LoadOverviewB ==
    /\ page = "none"
    /\ page' = "overview_b"
    /\ \E ok \in BOOLEAN :
          view' = IF ok THEN Loaded(LoadedWeekUnguarded(start_date, now))
                  ELSE LoadError(LoadedWeekUnguarded(start_date, now), "Entry list error")
    /\ render' = Render(page', view')
    /\ UNCHANGED <<weekVars, srvVars, dbPrompts, dbEntries, writeVars, last>>

\* DashboardOverviewClient (part_003): load
LoadOverviewC ==
    /\ page = "none"
    /\ page' = "overview_c"
    /\ \E ok \in BOOLEAN :
          view' = IF ok THEN Loaded(LoadedWeekUnguarded(start_date, now))
                  ELSE LoadError(LoadedWeekUnguarded(start_date, now), "Entry list error")
    /\ render' = Render(page', view')
    /\ UNCHANGED <<weekVars, srvVars, dbPrompts, dbEntries, writeVars, last>>

\* QuestionsClient (earlier revision): load
LoadQuestionsA ==
    /\ page = "none"
    /\ page' = "questions_a"
    /\ \E ok \in BOOLEAN :
          view' = IF ok
                  THEN [Loaded(LoadedWeekUnguarded(start_date, now))
                            EXCEPT !.entries = WithoutStatus(dbEntries)]
                  ELSE LoadError(LoadedWeekUnguarded(start_date, now), "Entry list error")
    /\ render' = Render(page', view')
    /\ UNCHANGED <<weekVars, srvVars, dbPrompts, dbEntries, writeVars, last>>

\* QuestionsClient (later revision): load
LoadQuestionsB ==
    /\ page = "none"
    /\ page' = "questions_b"
    /\ \E ok \in BOOLEAN :
          view' = IF ok THEN Loaded(LoadedWeekUnguarded(start_date, now))
                  ELSE LoadError(LoadedWeekUnguarded(start_date, now), "Entry list error")
    /\ render' = Render(page', view')
    /\ UNCHANGED <<weekVars, srvVars, dbPrompts, dbEntries, writeVars, last>>

\* prompts.find((x) => x.week === w) ?? null
findPrompt(prompts, w) ==
    LET idx == {i \in DOMAIN prompts : prompts[i].week = w}
    IN  IF idx = {} THEN NoPrompt ELSE prompts[SetMin(idx)]

\* WeekClient: the effect that follows prompts, entries or selectedWeek
Selection(v) ==
    LET e == findEntry(v.entries, v.selectedWeek)
    IN  [v EXCEPT !.prompt = findPrompt(v.prompts, v.selectedWeek),
                  !.entry = e,
                  !.title = OrEmpty(e.title),
                  !.content = OrEmpty(e.content),
                  !.themes = OrEmpty(e.themes),
                  !.entryStatus = normalizeEntryStatus(e.status)]

\* loadAll of the write view for the week parameter of the URL (0: none),
\* followed by the selection effect; the view mode is a state of its own
\* and is kept
LoadAll(v, weekParam, ok) ==
    LET cw == LoadedWeek(start_date, now)
        sel == IF weekParam = 0 THEN cw.v ELSE clampWeek(Num(weekParam)).v
        got == [v EXCEPT !.loading = FALSE, !.currentWeek = cw, !.weekParam = weekParam,
                         !.selectedWeek = sel, !.prompts = dbPrompts]
    IN  Selection(IF ok THEN [got EXCEPT !.entries = dbEntries, !.message = Null]
                  ELSE [got EXCEPT !.message = "Entry list error"])

\* WeekClient and part_007: the component mounts and loadAll runs
LoadWeek ==
    /\ page = "none"
    /\ page' \in WritePages
    /\ \E weekParam \in {0, EditWeekB}, ok \in BOOLEAN :
          view' = LoadAll(InitialView, weekParam, ok)
    /\ render' = Render(page', view')
    /\ savedSnapshotRef' = Snapshot(view')
    /\ timers' = AutoSaveEffect(timers, view', savedSnapshotRef')
    /\ UNCHANGED <<weekVars, srvVars, dbPrompts, dbEntries, isSavingRef, calls, last>>

\* AdminClient: GET users-overview, the result row of this user
LoadAdmin ==
    /\ page = "none"
    /\ page' = "admin"
    /\ view' = [InitialView EXCEPT !.loading = FALSE]
    /\ render' = overviewRow(dbEntries, start_date, now, tzOffset)
    /\ UNCHANGED <<weekVars, srvVars, dbPrompts, dbEntries, writeVars, last>>

\* AdminClient (first revision): boot reads prompts, profiles and entries;
\* a failing query leaves an empty list
LoadAdminList ==
    /\ page = "none"
    /\ \E promptsOk \in BOOLEAN :
          /\ page' = "admin_list"
          /\ view' = [InitialView EXCEPT !.loading = FALSE,
                          !.prompts = IF promptsOk THEN dbPrompts ELSE <<>>,
                          !.entries = dbEntries]
          /\ render' = usersRow(view'.prompts, view'.entries)
    /\ UNCHANGED <<weekVars, srvVars, dbPrompts, dbEntries, writeVars, last>>

\* UserClient: reloadData; a failing prompts query leaves the empty list
LoadAdminUser ==
    /\ page = "none"
    /\ \E promptsOk \in BOOLEAN :
          /\ page' = "admin_user"
          /\ view' = [InitialView EXCEPT !.loading = FALSE,
                          !.prompts = IF promptsOk THEN dbPrompts ELSE <<>>,
                          !.entries = dbEntries]
          /\ render' = [rows |-> weeks(view'.prompts, view'.entries)]
    /\ UNCHANGED <<weekVars, srvVars, dbPrompts, dbEntries, writeVars, last>>

\* signOut of a list page or of a write view without unsaved changes: the
\* page is left, its effects are cleaned up
SignOut ==
    /\ page # "none"
    /\ calls = <<>>
    /\ ~(page \in WritePages /\ isDirty(view, savedSnapshotRef))
    /\ page' = "none"
    /\ view' = InitialView
    /\ render' = Render(page', view')
    /\ savedSnapshotRef' = EmptyRef
    /\ timers' = <<>>
    /\ last' = NoCall
    /\ UNCHANGED <<weekVars, srvVars, dbPrompts, dbEntries, isSavingRef, calls>>

\* prev.map((row) => (row.id === id ? { ...row, status: next } : row)), and
\* update({ status: next }).eq("id", id) on the table
SetStatus(entries, id, next) ==
    Strict([i \in DOMAIN entries |->
        IF entries[i].id = id THEN [entries[i] EXCEPT !.status = next] ELSE entries[i]])

\* a three-state cycle instead of the flip
ToggledStatusCycle(e) ==
    IF e.status = "complete" THEN "in_progress"
    ELSE IF e.status = "in_progress" THEN "complete"
    ELSE "in_progress"

ToggledStatus(e) ==
    IF normalizeEntryStatus(e.status) = "complete" THEN "in_progress" ELSE "complete"

\* the record of a toggleComplete(week) call that issued the update: the
\* status it found, and the status the call before it found if that was a
\* successful toggle of the same week
Toggled(week, e, ok) ==
    [Call("toggle") EXCEPT !.week = week, !.wrote = TRUE, !.ok = ok,
                           !.before = e.status,
                           !.prev = IF last.op = "toggle" /\ last.wrote /\ last.ok
                                       /\ last.week = week
                                    THEN last.before ELSE "none"]

\* toggleComplete(week) of part_004 (second revision), part_003 and
\* QuestionsClient (later revision), called for any week
ToggleComplete ==
    /\ page \in {"overview_b", "overview_c", "questions_b"}
    /\ \E week \in EditWeeks, ok \in BOOLEAN :
          LET e == MapGet(entryByWeek(view.entries), week)
          IN  IF e = Undefined \/ ~hasText(e)
              THEN /\ dbEntries' = dbEntries
                   /\ view' = view
                   /\ render' = render
                   /\ last' = [Call("toggle") EXCEPT !.week = week]
              ELSE IF ok
              THEN /\ dbEntries' = SetStatus(dbEntries, e.id, ToggledStatus(e))
                   /\ view' = [view EXCEPT !.busyWeek = 0, !.message = Null,
                                   !.entries = SetStatus(view.entries, e.id, ToggledStatus(e))]
                   /\ render' = Render(page, view')
                   /\ last' = Toggled(week, e, ok)
              ELSE /\ dbEntries' = dbEntries
                   /\ view' = [view EXCEPT !.busyWeek = 0,
                                   !.message = "Status update error"]
                   /\ render' = render
                   /\ last' = Toggled(week, e, ok)
    /\ UNCHANGED <<weekVars, srvVars, dbPrompts, page, writeVars>>

\* toggleComplete(week) of part_004 (first revision), called for any week:
\* no content check, the result of the update is not looked at
ToggleCompleteA ==
    /\ page = "overview_a"
    /\ \E week \in EditWeeks, ok \in BOOLEAN :
          LET e == MapGet(entryByWeek(view.entries), week)
          IN  IF e = Undefined
              THEN /\ dbEntries' = dbEntries
                   /\ view' = view
                   /\ render' = render
                   /\ last' = [Call("toggle") EXCEPT !.week = week]
              ELSE /\ dbEntries' = IF ok THEN SetStatus(dbEntries, e.id, ToggledStatus(e))
                                   ELSE dbEntries
                   /\ view' = [view EXCEPT !.busyWeek = 0,
                                   !.entries = SetStatus(view.entries, e.id, ToggledStatus(e))]
                   /\ render' = Render(page, view')
                   /\ last' = Toggled(week, e, ok)
    /\ UNCHANGED <<weekVars, srvVars, dbPrompts, page, writeVars>>

Next ==
    \/ LoadOverviewA
    \/ LoadOverviewB
    \/ LoadOverviewC
    \/ LoadQuestionsA
    \/ LoadQuestionsB
    \/ LoadWeek
    \/ LoadAdmin
    \/ LoadAdminList
    \/ LoadAdminUser
    \/ SignOut
    \/ ToggleComplete
    \/ ToggleCompleteA

Spec == Init /\ [][Next]_vars

(***************************************************************************)
(* The write view: WeekClient, its revision in part_007, and the per-week  *)
(* DashboardClient.  A save is a call in flight: it holds what it read     *)
(* from the render it was made in and proceeds through its awaits, one     *)
(* step per storage request.                                               *)
(***************************************************************************)
\* the number of rows the entries table may grow to
MaxRows == 2

\* the number of DashboardClient saves in flight at a time
MaxCalls == 2

TitleInputs == {<<>>, <<"t">>}

ContentInputs == {<<>>, <<" ">>, <<"a">>}

\* the drafts a user types: a title or a content
Drafts == {d \in TitleInputs \X ContentInputs : d[1] = <<>> \/ d[2] = <<>>}

ViewModes == {"write", "open"}

\* the weeks a user goes to: one with a prompt, one without
NavWeeks == EditWeeks

WriteKinds == {Absent, Stored(<<"a">>, "complete")}

EditPages == WritePages \cup {"dashboard"}

InitWrite ==
    /\ start_date = IsoDate(0)
    /\ tzOffset = 0
    /\ now = Instant(8, 0)
    /\ obs = [site |-> "none", at |-> now, week |-> NotLoaded]
    /\ dbPrompts = Catalog(SmallCatalog)
    /\ \E ka \in WriteKinds : dbEntries = InitialEntries({}, ka, Absent)
    /\ page = "none"
    /\ view = InitialView
    /\ render = Render("none", InitialView)
    /\ Unmounted
    /\ ServerIdle
    /\ last = NoCall

\* x || null
OrNull(s) == IF s = <<>> THEN NullContent ELSE s

\* (title ?? "").trim().length > 0 || (content ?? "").trim().length > 0
hasAnyText(c) == Len(trim(c.title)) > 0 \/ Len(trim(c.content)) > 0

\* a callback that saves whenever the draft is dirty
TickSavesBlank(t) == t.isDirty

\* the interval callback: whether it goes on to saveInternal("auto")
TickSaves(t) == t.isDirty /\ hasAnyText(t.closure)

\* a save in flight
SaveCall(mode, st, override, v) ==
    [mode |-> mode, status |-> st, override |-> override, closure |-> Closure(v),
     pc |-> "write"]

\* the payload of a save (without the id)
Payload(c) ==
    EntryRow(0, c.closure.prompt.week, OrNull(c.closure.title), c.closure.content,
             OrNull(c.closure.themes), c.status)

NewId(entries) ==
    IF entries = <<>> THEN 1
    ELSE 1 + CHOOSE n \in {entries[i].id : i \in DOMAIN entries} :
                 \A i \in DOMAIN entries : entries[i].id <= n

\* update(payload).eq("id", entry.id), or insert(payload) when the render had
\* no entry for the week
Written(entries, c) ==
    IF c.closure.entry # Undefined
    THEN Strict([i \in DOMAIN entries |->
             IF entries[i].id = c.closure.entry.id
             THEN [Payload(c) EXCEPT !.id = entries[i].id] ELSE entries[i]])
    ELSE Append(entries, [Payload(c) EXCEPT !.id = NewId(entries)])

Remove(s, i) == SubSeq(s, 1, i - 1) \o SubSeq(s, i + 1, Len(s))

\* DashboardClient: the component mounts and loadAll runs
LoadDashboard ==
    /\ page = "none"
    /\ page' = "dashboard"
    /\ view' = LoadAll(InitialView, 0, TRUE)
    /\ render' = Render(page', view')
    /\ UNCHANGED <<weekVars, srvVars, dbPrompts, dbEntries, writeVars, last>>

\* onChange of the title input
SetTitle ==
    /\ page \in WritePages
    /\ view.view = "write"
    /\ \E t \in TitleInputs :
          /\ t # view.title
          /\ <<t, view.content>> \in Drafts
          /\ view' = [view EXCEPT !.title = t]
    /\ timers' = AutoSaveEffect(timers, view', savedSnapshotRef)
    /\ last' = NoCall
    /\ UNCHANGED <<weekVars, srvVars, dbPrompts, dbEntries, page, render, savedSnapshotRef,
                   isSavingRef, calls>>

\* onChange of the content textarea
SetContent ==
    /\ page \in EditPages
    /\ view.view = "write"
    /\ \E c \in ContentInputs :
          /\ c # view.content
          /\ <<view.title, c>> \in Drafts
          /\ view' = [view EXCEPT !.content = c]
    /\ timers' = IF page \in WritePages
                 THEN AutoSaveEffect(timers, view', savedSnapshotRef) ELSE timers
    /\ last' = NoCall
    /\ UNCHANGED <<weekVars, srvVars, dbPrompts, dbEntries, page, render, savedSnapshotRef,
                   isSavingRef, calls>>

\* a saveInternal that looks at the prompt only
EarlyReturnNoFlag(saving, prompt) == prompt = NoPrompt

\* if (isSavingRef.current) return; if (!prompt) return;
EarlyReturn(saving, prompt) == saving \/ prompt = NoPrompt

\* the Save button: save(), up to the first await of saveInternal("manual")
Save ==
    /\ page \in WritePages
    /\ view.view = "write"
    /\ view' = [view EXCEPT !.message = Null]
    /\ IF EarlyReturn(isSavingRef, view.prompt)
       THEN /\ last' = [Call("save") EXCEPT !.mode = "manual", !.ended = TRUE]
            /\ UNCHANGED <<isSavingRef, calls>>
       ELSE /\ isSavingRef' = TRUE
            /\ calls' = Append(calls, SaveCall("manual", view.entryStatus, FALSE, view))
            /\ last' = [Call("save") EXCEPT !.mode = "manual", !.called = TRUE]
    /\ timers' = AutoSaveEffect(timers, view', savedSnapshotRef)
    /\ UNCHANGED <<weekVars, srvVars, dbPrompts, dbEntries, page, render, savedSnapshotRef>>

\* the "Mark complete" button: saveInternal("manual", next), up to its first
\* await
MarkComplete ==
    /\ page \in WritePages
    /\ view.view = "write"
    /\ IF EarlyReturn(isSavingRef, view.prompt)
       THEN /\ last' = [Call("mark") EXCEPT !.mode = "manual", !.ended = TRUE]
            /\ UNCHANGED <<isSavingRef, calls>>
       ELSE /\ isSavingRef' = TRUE
            /\ calls' = Append(calls,
                   SaveCall("manual",
                            IF view.entryStatus = "complete" THEN "in_progress"
                            ELSE "complete",
                            TRUE, view))
            /\ last' = [Call("mark") EXCEPT !.mode = "manual", !.called = TRUE]
    /\ UNCHANGED <<weekVars, srvVars, dbPrompts, dbEntries, page, view, render,
                   savedSnapshotRef, timers>>

\* the interval fires: the callback of a timer that is set, up to the first
\* await of saveInternal("auto")
Tick ==
    \E i \in DOMAIN timers :
        LET t == timers[i]
        IN  /\ IF ~TickSaves(t)
               THEN /\ last' = Call("tick")
                    /\ UNCHANGED <<isSavingRef, calls>>
               ELSE IF EarlyReturn(isSavingRef, t.closure.prompt)
               THEN /\ last' = [Call("tick") EXCEPT !.mode = "auto", !.called = TRUE,
                                                          !.ended = TRUE]
                    /\ UNCHANGED <<isSavingRef, calls>>
               ELSE /\ isSavingRef' = TRUE
                    /\ calls' = Append(calls,
                           [SaveCall("auto", t.closure.entryStatus, FALSE, view)
                                EXCEPT !.closure = t.closure])
                    /\ last' = [Call("tick") EXCEPT !.mode = "auto", !.called = TRUE]
            /\ UNCHANGED <<weekVars, srvVars, dbPrompts, dbEntries, page, view, render,
                           savedSnapshotRef, timers>>

\* saveInternal after getUser: without a user the page is left for the
\* login page; otherwise the update or insert, and what follows it up to the
\* next await; an error ends the call.  The page may have been left in the
\* meantime: the request is still sent, the state setters do nothing
SaveInternalWrite ==
    /\ page \in WritePages \cup {"left"}
    /\ \E i \in DOMAIN calls, outcome \in {"ok", "error", "login"} :
          LET c == calls[i]
          IN  /\ c.pc = "write"
              /\ IF outcome = "ok"
                 THEN /\ c.closure.entry = Undefined => Len(dbEntries) < MaxRows
                      /\ dbEntries' = Written(dbEntries, c)
                      /\ page' = page
                      /\ view' = IF page = "left" THEN view
                                 ELSE [view EXCEPT
                                          !.entryStatus = IF c.override THEN c.status ELSE @,
                                          !.message = IF c.mode = "manual" THEN "Saved"
                                                      ELSE Null]
                      /\ calls' = [calls EXCEPT ![i].pc = "reload"]
                      /\ isSavingRef' = isSavingRef
                      /\ timers' = IF page = "left" THEN timers
                                   ELSE AutoSaveEffect(timers, view', savedSnapshotRef)
                      /\ UNCHANGED <<render, savedSnapshotRef>>
                 ELSE IF outcome = "error"
                 THEN /\ dbEntries' = dbEntries
                      /\ page' = page
                      /\ view' = IF page = "left" \/ c.mode = "auto" THEN view
                                 ELSE [view EXCEPT !.message = "Save error"]
                      /\ calls' = Remove(calls, i)
                      /\ isSavingRef' = FALSE
                      /\ timers' = IF page = "left" THEN timers
                                   ELSE AutoSaveEffect(timers, view', savedSnapshotRef)
                      /\ UNCHANGED <<render, savedSnapshotRef>>
                 ELSE /\ dbEntries' = dbEntries
                      /\ page' = "left"
                      /\ view' = InitialView
                      /\ render' = Render(page', view')
                      /\ savedSnapshotRef' = EmptyRef
                      /\ calls' = Remove(calls, i)
                      /\ isSavingRef' = FALSE
                      /\ timers' = <<>>
    /\ last' = NoCall
    /\ UNCHANGED <<weekVars, srvVars, dbPrompts>>

\* saveInternal: loadEntriesForUser (taken to succeed), the snapshot, the
\* finally block, and the selection effect that follows setEntries
SaveInternalReload ==
    /\ page \in WritePages \cup {"left"}
    /\ \E i \in DOMAIN calls :
          LET c == calls[i]
          IN  /\ c.pc = "reload"
              /\ calls' = Remove(calls, i)
              /\ last' = NoCall
              /\ IF page = "left"
                 THEN UNCHANGED <<view, render, savedSnapshotRef, isSavingRef, timers>>
                 ELSE /\ isSavingRef' = FALSE
                      /\ view' = Selection([view EXCEPT !.entries = dbEntries])
                      /\ render' = Render(page, view')
                      /\ savedSnapshotRef' = Snapshot(view')
                      /\ timers' = AutoSaveEffect(timers, view', savedSnapshotRef')
    /\ UNCHANGED <<weekVars, srvVars, dbPrompts, dbEntries, page>>

\* DashboardClient: the Save button, save() up to its first request
DashboardSave ==
    /\ page = "dashboard"
    /\ view.view = "write"
    /\ view' = [view EXCEPT !.message = Null]
    /\ IF view.prompt = NoPrompt
       THEN /\ last' = [Call("save") EXCEPT !.mode = "manual", !.ended = TRUE]
            /\ calls' = calls
       ELSE /\ Len(calls) < MaxCalls
            /\ calls' = Append(calls, SaveCall("manual", "draft", FALSE, view))
            /\ last' = [Call("save") EXCEPT !.mode = "manual", !.called = TRUE]
    /\ UNCHANGED <<weekVars, srvVars, dbPrompts, dbEntries, page, render, savedSnapshotRef,
                   isSavingRef, timers>>

\* DashboardClient save(): the update or insert and its message
DashboardSaveWrite ==
    /\ page = "dashboard"
    /\ \E i \in DOMAIN calls, ok \in BOOLEAN :
          LET c == calls[i]
          IN  /\ c.pc = "write"
              /\ IF ok
                 THEN /\ c.closure.entry = Undefined => Len(dbEntries) < MaxRows
                      /\ dbEntries' = Written(dbEntries, c)
                      /\ view' = [view EXCEPT !.message = "Saved"]
                      /\ calls' = [calls EXCEPT ![i].pc = "reload"]
                      /\ last' = NoCall
                 ELSE /\ dbEntries' = dbEntries
                      /\ view' = [view EXCEPT !.message = "Save error"]
                      /\ calls' = Remove(calls, i)
                      /\ last' = NoCall
    /\ UNCHANGED <<weekVars, srvVars, dbPrompts, page, render, savedSnapshotRef, isSavingRef,
                   timers>>

\* DashboardClient save(): loadEntriesForUser and the selection effect
DashboardSaveReload ==
    /\ page = "dashboard"
    /\ \E i \in DOMAIN calls, ok \in BOOLEAN :
          LET c == calls[i]
          IN  /\ c.pc = "reload"
              /\ calls' = Remove(calls, i)
              /\ last' = NoCall
              /\ view' = IF ok THEN Selection([view EXCEPT !.entries = dbEntries])
                         ELSE view
              /\ render' = Render(page, view')
    /\ UNCHANGED <<weekVars, srvVars, dbPrompts, dbEntries, page, savedSnapshotRef, isSavingRef,
                   timers>>

\* goToWeek(w): the guard, the selection effect if the week changes, and
\* loadAll if the week parameter of the URL changes
GoToWeek ==
    /\ page \in WritePages
    /\ \E w \in NavWeeks, confirmed \in BOOLEAN :
          LET dirty == isDirty(view, savedSnapshotRef)
              ww == clampWeek(Num(w)).v
              picked == [view EXCEPT !.selectedWeek = ww, !.view = "write"]
              shown == IF ww = view.selectedWeek THEN picked ELSE Selection(picked)
          IN  IF dirty /\ ~confirmed
              THEN /\ last' = [Call("goToWeek") EXCEPT !.asked = TRUE]
                   /\ UNCHANGED <<view, render, savedSnapshotRef, timers>>
              ELSE /\ view' = IF ww = view.weekParam THEN shown
                              ELSE LoadAll(shown, ww, TRUE)
                   /\ render' = Render(page, view')
                   /\ savedSnapshotRef' =
                          IF ww = view.weekParam /\ ww = view.selectedWeek
                          THEN savedSnapshotRef ELSE Snapshot(view')
                   /\ timers' = AutoSaveEffect(timers, view', savedSnapshotRef')
                   /\ last' = [Call("goToWeek") EXCEPT !.asked = dirty,
                                         !.confirmed = dirty]
    /\ UNCHANGED <<weekVars, srvVars, dbPrompts, dbEntries, page, isSavingRef, calls>>

\* switchView(next)
SwitchView ==
    /\ page \in WritePages
    /\ \E next \in ViewModes, confirmed \in BOOLEAN :
          LET dirty == isDirty(view, savedSnapshotRef)
          IN  /\ next # view.view
              /\ IF dirty /\ ~confirmed
                 THEN /\ last' = [Call("switchView") EXCEPT !.asked = TRUE]
                      /\ UNCHANGED <<view, timers>>
                 ELSE /\ view' = [view EXCEPT !.view = next]
                      /\ timers' = AutoSaveEffect(timers, view', savedSnapshotRef)
                      /\ last' = [Call("switchView") EXCEPT !.asked = dirty,
                                            !.confirmed = dirty]
    /\ UNCHANGED <<weekVars, srvVars, dbPrompts, dbEntries, page, render, savedSnapshotRef,
                   isSavingRef, calls>>

\* goToDashboard of WeekClient, goToQuestions of part_007
GoToDashboard ==
    /\ page \in WritePages
    /\ \E confirmed \in BOOLEAN :
          LET dirty == isDirty(view, savedSnapshotRef)
          IN  IF dirty /\ ~confirmed
              THEN /\ last' = [Call("goToDashboard") EXCEPT !.asked = TRUE]
                   /\ UNCHANGED <<page, view, render, savedSnapshotRef, isSavingRef, timers>>
              ELSE /\ page' = "left"
                   /\ view' = InitialView
                   /\ render' = Render(page', view')
                   /\ savedSnapshotRef' = EmptyRef
                   /\ isSavingRef' = FALSE
                   /\ timers' = <<>>
                   /\ last' = [Call("goToDashboard") EXCEPT !.asked = dirty,
                                         !.confirmed = dirty]
    /\ UNCHANGED <<weekVars, srvVars, dbPrompts, dbEntries, calls>>

\* goToProfile
GoToProfile ==
    /\ page \in WritePages
    /\ \E confirmed \in BOOLEAN :
          LET dirty == isDirty(view, savedSnapshotRef)
          IN  IF dirty /\ ~confirmed
              THEN /\ last' = [Call("goToProfile") EXCEPT !.asked = TRUE]
                   /\ UNCHANGED <<page, view, render, savedSnapshotRef, isSavingRef, timers>>
              ELSE /\ page' = "left"
                   /\ view' = InitialView
                   /\ render' = Render(page', view')
                   /\ savedSnapshotRef' = EmptyRef
                   /\ isSavingRef' = FALSE
                   /\ timers' = <<>>
                   /\ last' = [Call("goToProfile") EXCEPT !.asked = dirty,
                                         !.confirmed = dirty]
    /\ UNCHANGED <<weekVars, srvVars, dbPrompts, dbEntries, calls>>

\* signOut of the write view
SignOutWrite ==
    /\ page \in WritePages
    /\ \E confirmed \in BOOLEAN :
          LET dirty == isDirty(view, savedSnapshotRef)
          IN  IF dirty /\ ~confirmed
              THEN /\ last' = [Call("signOut") EXCEPT !.asked = TRUE]
                   /\ UNCHANGED <<page, view, render, savedSnapshotRef, isSavingRef, timers>>
              ELSE /\ page' = "left"
                   /\ view' = InitialView
                   /\ render' = Render(page', view')
                   /\ savedSnapshotRef' = EmptyRef
                   /\ isSavingRef' = FALSE
                   /\ timers' = <<>>
                   /\ last' = [Call("signOut") EXCEPT !.asked = dirty,
                                         !.confirmed = dirty]
    /\ UNCHANGED <<weekVars, srvVars, dbPrompts, dbEntries, calls>>

\* the window is closed or reloaded: onBeforeUnload makes the browser ask
\* when the draft is dirty
BeforeUnload ==
    /\ page \in WritePages
    /\ \E confirmed \in BOOLEAN :
          LET dirty == isDirty(view, savedSnapshotRef)
          IN  IF dirty /\ ~confirmed
              THEN /\ last' = [Call("beforeunload") EXCEPT !.asked = TRUE]
                   /\ UNCHANGED <<page, view, render, savedSnapshotRef, isSavingRef, timers>>
              ELSE /\ page' = "left"
                   /\ view' = InitialView
                   /\ render' = Render(page', view')
                   /\ savedSnapshotRef' = EmptyRef
                   /\ isSavingRef' = FALSE
                   /\ timers' = <<>>
                   /\ last' = [Call("beforeunload") EXCEPT !.asked = dirty,
                                         !.confirmed = dirty]
    /\ UNCHANGED <<weekVars, srvVars, dbPrompts, dbEntries, calls>>

\* the week parameter of the URL changes under the mounted component (back,
\* forward, a link to another week): weekParam is a dependency of the effect
\* that runs loadAll
WeekParamChange ==
    /\ page \in WritePages
    /\ \E w \in {0} \cup NavWeeks :
          /\ w # view.weekParam
          /\ view' = LoadAll(view, w, TRUE)
          /\ last' = Call("weekParam")
    /\ render' = Render(page, view')
    /\ savedSnapshotRef' = Snapshot(view')
    /\ timers' = AutoSaveEffect(timers, view', savedSnapshotRef')
    /\ UNCHANGED <<weekVars, srvVars, dbPrompts, dbEntries, page, isSavingRef, calls>>

\* saving: the content, the buttons, the timer and the calls in flight
NextWrite ==
    \/ LoadWeek
    \/ SetContent
    \/ Save
    \/ MarkComplete
    \/ Tick
    \/ SaveInternalWrite
    \/ SaveInternalReload

SpecWrite == InitWrite /\ [][NextWrite]_vars

\* the timer: the draft, the views, auto-saves, leaving the page
NextTick ==
    \/ LoadWeek
    \/ SetTitle
    \/ SetContent
    \/ Tick
    \/ SaveInternalWrite
    \/ SaveInternalReload
    \/ SwitchView
    \/ GoToDashboard

SpecTick == InitWrite /\ [][NextTick]_vars

\* leaving: the draft and every way out of it
NextNav ==
    \/ LoadWeek
    \/ SetTitle
    \/ SetContent
    \/ GoToWeek
    \/ SwitchView
    \/ GoToDashboard
    \/ GoToProfile
    \/ SignOutWrite
    \/ BeforeUnload
    \/ WeekParamChange

SpecNav == InitWrite /\ [][NextNav]_vars

\* the per-week DashboardClient: saves that overlap
NextDash ==
    \/ LoadDashboard
    \/ SetContent
    \/ DashboardSave
    \/ DashboardSaveWrite
    \/ DashboardSaveReload

SpecDash == InitWrite /\ [][NextDash]_vars

(***************************************************************************)
(* The auto-save timer in time: setInterval(callback, 30_000).  Time is    *)
(* counted in units of which AutoSaveTicks make the period; an interval    *)
(* fires when its period has passed since it was set or last fired.        *)
(***************************************************************************)
AutoSaveTicks == 2

\* what the content is while the user keeps typing
TypedContents == {<<"a">>, <<"a", "a">>}

\* onChange of the content textarea, for a user who types on
TypeContent ==
    /\ page \in WritePages
    /\ view.view = "write"
    /\ \E c \in TypedContents :
          /\ c # view.content
          /\ view.title = <<>>
          /\ view' = [view EXCEPT !.content = c]
    /\ timers' = AutoSaveEffect(timers, view', savedSnapshotRef)
    /\ last' = NoCall
    /\ UNCHANGED <<weekVars, srvVars, dbPrompts, dbEntries, page, render, savedSnapshotRef,
                   isSavingRef, calls>>

\* one unit of time passes
Elapse ==
    /\ timers # <<>>
    /\ \E i \in DOMAIN timers : timers[i].age < AutoSaveTicks
    /\ timers' = Strict([i \in DOMAIN timers |->
                     [timers[i] EXCEPT !.age = Min(@ + 1, AutoSaveTicks)]])
    /\ UNCHANGED <<weekVars, srvVars, dbPrompts, dbEntries, page, view, render,
                   savedSnapshotRef, isSavingRef, calls, last>>

\* the interval fires when its period has passed: the callback, up to the
\* first await of saveInternal("auto")
TickDue ==
    \E i \in DOMAIN timers :
        LET t == timers[i]
        IN  /\ t.age = AutoSaveTicks
            /\ timers' = [timers EXCEPT ![i].age = 0]
            /\ IF ~TickSaves(t)
               THEN /\ last' = Call("tick")
                    /\ UNCHANGED <<isSavingRef, calls>>
               ELSE IF EarlyReturn(isSavingRef, t.closure.prompt)
               THEN /\ last' = [Call("tick") EXCEPT !.mode = "auto", !.called = TRUE,
                                                          !.ended = TRUE]
                    /\ UNCHANGED <<isSavingRef, calls>>
               ELSE /\ isSavingRef' = TRUE
                    /\ calls' = Append(calls,
                           [SaveCall("auto", t.closure.entryStatus, FALSE, view)
                                EXCEPT !.closure = t.closure])
                    /\ last' = [Call("tick") EXCEPT !.mode = "auto", !.called = TRUE]
            /\ UNCHANGED <<weekVars, srvVars, dbPrompts, dbEntries, page, view, render,
                           savedSnapshotRef>>

NextLive ==
    \/ LoadWeek
    \/ SetTitle
    \/ SetContent
    \/ TypeContent
    \/ Elapse
    \/ TickDue
    \/ SaveInternalWrite
    \/ SaveInternalReload

\* time passes, an interval that is due again and again fires, a request
\* is answered
SpecLive ==
    /\ InitWrite
    /\ [][NextLive]_vars
    /\ WF_vars(Elapse)
    /\ SF_vars(TickDue)
    /\ WF_vars(SaveInternalWrite)
    /\ WF_vars(SaveInternalReload)

(***************************************************************************)
(* The weekly email job, GET /api/cron/send-weekly: one iteration of its   *)
(* loop is one step.                                                       *)
(***************************************************************************)
MaxProfiles == 2

MaxRuns == 2

UserIds == <<"user", "second", "third", "fourth">>

\* the rows the table is filled from: email, email_opt_in, start_date,
\* email_paused, disabled
ProfileKinds ==
    {<<"user@x", TRUE, IsoDate(0), FALSE, FALSE>>,
     <<"user@x", TRUE, IsoDate(0), TRUE, FALSE>>,
     <<"user@x", TRUE, IsoDate(0), FALSE, TRUE>>,
     <<"user@x", FALSE, IsoDate(0), FALSE, FALSE>>,
     <<"user@x", TRUE, NullDate, FALSE, FALSE>>,
     <<Null, TRUE, IsoDate(0), FALSE, FALSE>>,
     <<"", TRUE, IsoDate(0), TRUE, FALSE>>}

ProfileTables ==
    UNION {{Strict([i \in 1..n |-> Profile(UserIds[i], f[i][1], f[i][2], f[i][3],
                                            f[i][4], f[i][5])]) :
                f \in [1..n -> ProfileKinds]} : n \in 1..MaxProfiles}

InitCron ==
    /\ start_date = IsoDate(0)
    /\ tzOffset = 0
    /\ now = Instant(8, 0)
    /\ obs = [site |-> "none", at |-> now, week |-> NotLoaded]
    /\ dbPrompts \in {Catalog(SmallCatalog), GapCatalog}
    /\ dbEntries = <<>>
    /\ page = "none"
    /\ view = InitialView
    /\ render = Render("none", InitialView)
    /\ Unmounted
    /\ last = NoCall
    /\ profiles \in ProfileTables
    /\ outbox = <<>>
    /\ cron = NoJob
    /\ api = NoRequest

\* GET: the token check and the query of the profiles
CronStart ==
    /\ cron.pc \in {"idle", "done"}
    /\ cron.run < MaxRuns
    /\ \E tokenOk \in BOOLEAN, queryOk \in BOOLEAN :
          cron' = IF ~tokenOk
                  THEN [NoJob EXCEPT !.pc = "done", !.run = cron.run + 1, !.status = 401]
                  ELSE IF ~queryOk
                  THEN [NoJob EXCEPT !.pc = "done", !.run = cron.run + 1, !.status = 500]
                  ELSE [NoJob EXCEPT !.pc = "loop", !.run = cron.run + 1, !.i = 1,
                                     !.selected = CronQuery(profiles)]
    /\ UNCHANGED <<weekVars, appVars, profiles, outbox, api>>

\* for (const p of profiles): the iteration for the next profile
CronIterate ==
    /\ cron.pc = "loop"
    /\ cron.i <= Len(cron.selected)
    /\ \E promptOk \in BOOLEAN, sendOk \in BOOLEAN :
          LET p == cron.selected[cron.i]
              week == getWeekFromStartDate(p.start_date, now)
          IN  IF NoEmail(p) \/ ~Truthy(p.start_date)
              THEN /\ cron' = [cron EXCEPT !.i = @ + 1, !.skipped = @ + 1]
                   /\ outbox' = outbox
              ELSE IF ~promptOk \/ findPrompt(dbPrompts, week.v) = NoPrompt
              THEN /\ cron' = [cron EXCEPT !.i = @ + 1, !.skipped = @ + 1]
                   /\ outbox' = outbox
              ELSE IF sendOk
              THEN /\ cron' = [cron EXCEPT !.i = @ + 1, !.sent = @ + 1]
                   /\ outbox' = Append(outbox, WeeklyEmail(p, week.v, cron.run))
              ELSE /\ cron' = [cron EXCEPT !.i = @ + 1, !.skipped = @ + 1]
                   /\ outbox' = outbox
    /\ UNCHANGED <<weekVars, appVars, profiles, api>>

\* the loop is over: { ok: true, sent, skipped, total }
CronEnd ==
    /\ cron.pc = "loop"
    /\ cron.i > Len(cron.selected)
    /\ cron' = [cron EXCEPT !.pc = "done", !.status = 200]
    /\ UNCHANGED <<weekVars, appVars, profiles, outbox, api>>

NextCron ==
    \/ CronStart
    \/ CronIterate
    \/ CronEnd

SpecCron == InitCron /\ [][NextCron]_vars

(***************************************************************************)
(* The admin endpoints: GET users-overview and POST auth-actions, both     *)
(* behind requireAdmin.  A request is one step; api holds the request,     *)
(* its response and the tables and services the handler reached.           *)
(***************************************************************************)
MaxEmails == 1

\* the Authorization header: none, a token that is no session, the session
\* of a user, the session of an administrator
Tokens == {"none", "bad", "user", "admin"}

\* table admin_users
AdminUsers == {"admin"}

\* supabase.auth.getUser(token): the user of the session, Null if none
SessionUser(token) == IF token \in {"user", "admin"} THEN token ELSE Null

Refused(status) == [ok |-> FALSE, status |-> status, userId |-> Null]

\* what can fail in a request: a missing environment variable (mustEnv
\* throws, the handlers answer with status 500), getUser, the query of
\* admin_users, the query or the service the handler uses
Faults == {"none", "env", "getUser", "admin_users", "handler"}

\* a check that accepts every valid session
requireAdminAnySession(token, fault) ==
    IF token = "none" THEN Refused(401)
    ELSE IF fault = "env" THEN Refused(500)
    ELSE IF fault = "getUser" \/ SessionUser(token) = Null THEN Refused(401)
    ELSE IF fault = "admin_users" THEN Refused(500)
    ELSE [ok |-> TRUE, status |-> 200, userId |-> SessionUser(token)]

\* requireAdmin(req)
requireAdmin(token, fault) ==
    IF token = "none" THEN Refused(401)
    ELSE IF fault = "env" THEN Refused(500)
    ELSE IF fault = "getUser" \/ SessionUser(token) = Null THEN Refused(401)
    ELSE IF fault = "admin_users" THEN Refused(500)
    ELSE IF SessionUser(token) \notin AdminUsers THEN Refused(403)
    ELSE [ok |-> TRUE, status |-> 200, userId |-> SessionUser(token)]

Request(endpoint, token, action, target) ==
    [NoRequest EXCEPT !.endpoint = endpoint, !.token = token, !.action = action,
                      !.target = target]

\* NextResponse.json({ ok, ... }, { status })
Respond(r, status, reads, writes) ==
    [r EXCEPT !.ok = (status = 200), !.status = status, !.reads = reads,
              !.writes = writes]

Actions == {"none", "set_disabled", "send_magic_link", "send_password_reset",
            "confirm_email", "other"}

Targets == {"none", "not-a-uuid", "user", "second"}

\* update({ disabled }).eq("id", target)
SetDisabled(rows, target, disabled) ==
    Strict([i \in DOMAIN rows |->
        IF rows[i].id = target THEN [rows[i] EXCEPT !.disabled = disabled] ELSE rows[i]])

\* the link email handed to the email provider
LinkEmail(kind, target) ==
    [kind |-> kind, to |-> "user@x", id |-> target, week |-> 0, run |-> 0]

InitAdmin ==
    /\ start_date = IsoDate(0)
    /\ tzOffset = 0
    /\ now = Instant(8, 0)
    /\ obs = [site |-> "none", at |-> now, week |-> NotLoaded]
    /\ dbPrompts = Catalog(SmallCatalog)
    /\ dbEntries = <<>>
    /\ page = "none"
    /\ view = InitialView
    /\ render = Render("none", InitialView)
    /\ Unmounted
    /\ last = NoCall
    /\ profiles = <<UserProfile, Profile("second", "user@x", TRUE, NullDate, TRUE, FALSE)>>
    /\ outbox = <<>>
    /\ cron = NoJob
    /\ api = NoRequest

\* GET users-overview
UsersOverview ==
    /\ \E token \in Tokens, fault \in Faults :
          LET adminCheck == requireAdmin(token, fault)
              dbOk == fault # "handler"
              r == Request("users-overview", token, "none", "none")
          IN  api' = IF ~adminCheck.ok THEN Respond(r, adminCheck.status, {}, {})
                     ELSE IF ~dbOk THEN Respond(r, 500, {"admin_users"}, {})
                     ELSE Respond(r, 200, {"admin_users", "profiles", "entries"}, {})
    /\ UNCHANGED <<weekVars, appVars, profiles, outbox, cron>>

\* POST auth-actions
AuthActions ==
    /\ \E token \in Tokens, fault \in Faults, action \in Actions, target \in Targets :
          LET adminCheck == requireAdmin(token, fault)
              dbOk == fault # "handler"
              r == Request("auth-actions", token, action, target)
              kind == IF action = "send_magic_link" THEN "magiclink" ELSE "recovery"
          IN  IF ~adminCheck.ok
              THEN /\ api' = Respond(r, adminCheck.status, {}, {})
                   /\ profiles' = profiles
                   /\ outbox' = outbox
              ELSE IF action = "none" \/ target \in {"none", "not-a-uuid"}
              THEN /\ api' = Respond(r, 400, {}, {})
                   /\ profiles' = profiles
                   /\ outbox' = outbox
              ELSE IF action = "set_disabled"
              THEN /\ api' = IF dbOk THEN Respond(r, 200, {}, {"profiles"})
                             ELSE Respond(r, 500, {}, {})
                   /\ \E disabled \in BOOLEAN :
                         profiles' = IF dbOk THEN SetDisabled(profiles, target, disabled)
                                     ELSE profiles
                   /\ outbox' = outbox
              ELSE IF action \in {"send_magic_link", "send_password_reset"}
              THEN /\ Len(outbox) < MaxEmails
                   /\ api' = IF dbOk THEN Respond(r, 200, {"auth.users"}, {"link", "email"})
                             ELSE Respond(r, 500, {"auth.users"}, {})
                   /\ profiles' = profiles
                   /\ outbox' = IF dbOk THEN Append(outbox, LinkEmail(kind, target))
                                ELSE outbox
              ELSE IF action = "confirm_email"
              THEN /\ api' = IF dbOk THEN Respond(r, 200, {}, {"auth.users"})
                             ELSE Respond(r, 500, {}, {})
                   /\ profiles' = profiles
                   /\ outbox' = outbox
              ELSE /\ api' = Respond(r, 400, {}, {})
                   /\ profiles' = profiles
                   /\ outbox' = outbox
    /\ UNCHANGED <<weekVars, appVars, cron>>

NextAdmin ==
    \/ UsersOverview
    \/ AuthActions

SpecAdmin == InitAdmin /\ [][NextAdmin]_vars

(***************************************************************************)
(* The disabled-user gate: an administrator disables the user, the user    *)
(* opens pages.  The user of the pages is no administrator.                *)
(***************************************************************************)
\* AdminClient: the "Disable user" / "Enable user" button of the row of the
\* user, window.confirm and POST auth-actions with the administrator's token
DisableUser ==
    /\ \E confirmed \in BOOLEAN, fault \in Faults :
          LET adminCheck == requireAdmin("admin", fault)
              r == Request("auth-actions", "admin", "set_disabled", "user")
              done == adminCheck.ok /\ fault # "handler"
          IN  IF ~confirmed
              THEN UNCHANGED <<api, profiles>>
              ELSE /\ api' = IF ~adminCheck.ok THEN Respond(r, adminCheck.status, {}, {})
                             ELSE IF done THEN Respond(r, 200, {}, {"profiles"})
                             ELSE Respond(r, 500, {}, {})
                   /\ profiles' = IF done
                                  THEN SetDisabled(profiles, "user", ~profiles[1].disabled)
                                  ELSE profiles
    /\ UNCHANGED <<weekVars, appVars, outbox, cron>>

\* DashboardPage (part_005): run, and the load of DashboardOverviewClient
\* once ready is set
DashboardPageRun ==
    /\ page = "none"
    /\ \E signedIn \in BOOLEAN, isAdminErr \in BOOLEAN, profErr \in BOOLEAN,
          ok \in BOOLEAN :
          IF ~signedIn
          THEN /\ page' = "login"
               /\ view' = InitialView
          ELSE IF ~isAdminErr /\ ~profErr /\ profiles[1].disabled = TRUE
          THEN /\ page' = "disabled"
               /\ view' = InitialView
          ELSE /\ page' = "overview_c"
               /\ view' = IF ok THEN Loaded(LoadedWeekUnguarded(start_date, now))
                          ELSE LoadError(LoadedWeekUnguarded(start_date, now),
                                         "Entry list error")
    /\ render' = Render(page', view')
    /\ UNCHANGED <<weekVars, srvVars, dbPrompts, dbEntries, writeVars, last>>

NextGate ==
    \/ DisableUser
    \/ DashboardPageRun
    \/ LoadWeek

SpecGate == InitWrite /\ [][NextGate]_vars

(***************************************************************************)
(* Properties of week-number resolution, stated of SpecWeek.               *)
(***************************************************************************)
StartMidnight == ParseUTC(start_date)

\* whole days elapsed between UTC midnight of the start date and the
\* instant of the last computation
ElapsedDays == FloorDays(obs.at, StartMidnight).v

UtcSites == {"week", "dashboard", "questions", "overview", "cron"}

\* C1: for every valid start date (past, today or later than now) and every
\* current time the computed week is an integer in 1..52, and it is exactly 1
\* whenever the start date is later than now.
C1_WeekInRange ==
    (start_date.kind = "date" /\ obs.site # "none") =>
        /\ obs.week.kind = "number"
        /\ obs.week.v \in 1..52
        /\ (Before(obs.at, StartMidnight) => obs.week.v = 1)

C1_Witness ==
    /\ start_date.kind = "date"
    /\ obs.site = "cron"
    /\ Before(obs.at, StartMidnight)
    /\ ElapsedDays < 0 - 7
    /\ obs.week = Num(1)

\* C2: for a fixed start date, from one computation to a later one at the
\* same place the week never decreases, never exceeds 52 and stays 52 once it
\* is 52 (no wraparound, no week 53); in the client computation and the
\* weekly email job it is one more (capped at 52) when 7 more whole days have
\* elapsed since the start date.
C2_Monotonic ==
    [][(/\ start_date.kind = "date"
        /\ obs.site # "none"
        /\ obs'.site = obs.site)
       => LET d1 == FloorDays(obs.at, StartMidnight).v
              d2 == FloorDays(obs'.at, StartMidnight).v
          IN  /\ obs'.week.v >= obs.week.v
              /\ obs'.week.v <= 52
              /\ ((obs.site \in UtcSites /\ d1 >= 0 /\ d2 = d1 + 7)
                     => obs'.week.v = Min(obs.week.v + 1, 52))
              /\ (obs.week.v = 52 => obs'.week.v = 52)]_vars

C2_Witness ==
    /\ start_date.kind = "date"
    /\ obs.site = "week"
    /\ ElapsedDays >= 7 * 52
    /\ obs.week = Num(52)

\* C3: with a missing (null/empty) or invalid start date every place that
\* computes the current week yields week 1.
C3_MissingStartIsWeekOne ==
    (start_date.kind \in {"null", "empty", "invalid"} /\ obs.site # "none") =>
        obs.week = Num(1)

\* C4: for every valid start date the week is clamp(floor(d / 7) + 1, 1, 52)
\* with d the whole days since UTC midnight of the start date, identically in
\* the client computation, the weekly email job and the admin users-overview.
C4_SameWeekEverywhere ==
    (start_date.kind = "date" /\ obs.site \in {"week", "cron", "admin"}) =>
        obs.week = Num(clamp((ElapsedDays \div 7) + 1, 1, 52))

(***************************************************************************)
(* Properties of statuses, rows and aggregates, stated of Spec.            *)
(***************************************************************************)
\* the content is null, empty or made of whitespace only
Blank(c) == c = NullContent \/ \A i \in DOMAIN c : c[i] \in Whitespace

\* the rows of the page state that belong to week w
RowsOfWeek(w) == {i \in DOMAIN view.entries : view.entries[i].week = w}

\* the entry of week w in the page state (there is at most one)
EntryOfWeek(w) ==
    IF RowsOfWeek(w) = {} THEN Undefined
    ELSE view.entries[CHOOSE i \in RowsOfWeek(w) : TRUE]

StatusPages == {"overview_a", "overview_b", "overview_c", "questions_b"}

CountRows(st) ==
    Cardinality({i \in DOMAIN render.rows : render.rows[i].displayStatus = st})

\* C5: the write view's normalised status is 'complete' only when the raw
\* status of the selected entry is exactly the string "complete", and
\* 'in_progress' for every other raw value ("draft", "Complete", "completed",
\* "", null, no entry); normalising the result again returns it unchanged.
C5_NormalizeExact ==
    page \in WritePages =>
        /\ view.entryStatus \in {"complete", "in_progress"}
        /\ (view.entryStatus = "complete" <=> view.entry.status = "complete")
        /\ normalizeEntryStatus(view.entryStatus) = view.entryStatus

C5_Witness ==
    /\ page \in WritePages
    /\ view.entry.status \in {"Complete", "completed"}
    /\ view.entryStatus = "in_progress"

\* C6: every displayed row is Open when the week has no entry or the entry's
\* content is blank after trimming, whatever the stored status; otherwise it
\* is Complete when the stored status is exactly "complete" and In Progress
\* when it is not.
C6_DisplayStatus ==
    page \in StatusPages =>
        \A i \in DOMAIN render.rows :
            LET e == EntryOfWeek(render.rows[i].week)
            IN  render.rows[i].displayStatus =
                    IF e = Undefined \/ Blank(e.content) THEN "Open"
                    ELSE IF e.status = "complete" THEN "Complete"
                    ELSE "In Progress"

C6_Witness ==
    /\ page \in {"overview_c", "questions_b"}
    /\ \E i \in DOMAIN render.rows :
          LET e == EntryOfWeek(render.rows[i].week)
          IN  /\ e # Undefined
              /\ e.content # NullContent
              /\ Len(e.content) > 0
              /\ Blank(e.content)
              /\ e.status = "complete"
              /\ render.rows[i].displayStatus = "Open"

\* C7: the rows of the dashboard and of the questions list hold exactly one
\* row per prompt of the catalog, and the displayStatus of a row is
\* displayStatus of the entry with the same week number (Open when there is
\* none).
C7_OneRowPerPrompt ==
    page \in OverviewPages \cup QuestionsPages =>
        /\ Len(render.rows) = Len(view.prompts)
        /\ \A i \in DOMAIN view.prompts :
              Cardinality({j \in DOMAIN render.rows :
                              render.rows[j].week = view.prompts[i].week}) = 1
        /\ page \in StatusPages =>
              \A j \in DOMAIN render.rows :
                  render.rows[j].displayStatus =
                      deriveDisplayStatus(EntryOfWeek(render.rows[j].week))

C7_Witness ==
    /\ page \in {"overview_b", "questions_b"}
    /\ Len(view.prompts) = MaxWeek - 1
    /\ Len(render.rows) = MaxWeek - 1
    /\ EntryOfWeek(EditWeekA) # Undefined
    /\ \A j \in DOMAIN render.rows : render.rows[j].week # EditWeekA
    /\ \E j \in DOMAIN render.rows :
          render.rows[j].week = EditWeekB /\ render.rows[j].displayStatus = "Open"

\* C8: on the dashboard, once the catalog is loaded, each lifecycle count is
\* the number of displayed rows with that displayStatus and the three counts
\* sum to the number of rows, for any catalog size (the revision that ranks
\* its rows shows the In Progress and Complete counts only).
C8_CountsPartitionRows ==
    (page \in {"overview_b", "overview_c"} /\ Len(view.prompts) > 0) =>
        IF page = "overview_c"
        THEN /\ render.lifecycle.complete = CountRows("Complete")
             /\ render.lifecycle.inProgress = CountRows("In Progress")
        ELSE /\ render.lifecycle.openCount = CountRows("Open")
             /\ render.lifecycle.inProgressCount = CountRows("In Progress")
             /\ render.lifecycle.completeCount = CountRows("Complete")
             /\ render.lifecycle.openCount + render.lifecycle.inProgressCount
                    + render.lifecycle.completeCount = Len(render.rows)

\* the complete count and the percentage a page shows
ShownComplete ==
    IF page = "admin" THEN render.complete_count
    ELSE IF page = "overview_c" THEN render.lifecycle.complete
    ELSE render.lifecycle.completeCount

ShownPercent == IF page = "admin" THEN render.percent_complete ELSE render.progressPct

\* C9: the percentage shown by the dashboard and by the admin users-overview
\* is the integer nearest to completeCount / 52 * 100 (halves rounded up),
\* whatever the size of the catalog: 10 complete give 19.
C9_PercentOfFiftyTwo ==
    page \in OverviewPages \cup {"admin"} =>
        /\ 52 * (2 * ShownPercent - 1) <= 200 * ShownComplete
        /\ 200 * ShownComplete < 52 * (2 * ShownPercent + 1)
        /\ (ShownComplete = 10 => ShownPercent = 19)

C9_Witness ==
    /\ page = "overview_b"
    /\ Len(view.prompts) = 10
    /\ Len(render.rows) = 10
    /\ \A j \in DOMAIN render.rows : render.rows[j].displayStatus = "Complete"
    /\ ShownComplete = 10
    /\ ShownPercent = 19

\* the stored entry of week w (there is at most one)
StoredEntryOfWeek(w) ==
    LET rows == {i \in DOMAIN dbEntries : dbEntries[i].week = w}
    IN  IF rows = {} THEN Undefined ELSE dbEntries[CHOOSE i \in rows : TRUE]

\* C10: the questions list reports "all completed" only if the catalog has
\* exactly 52 rows and every one of them has displayStatus Complete, that
\* is, its stored entry has non-blank content and the status "complete".
C10_AllCompletedOnlyIfAllComplete ==
    (page \in QuestionsPages /\ render.allCompleted) =>
        /\ Len(view.prompts) = 52
        /\ \A i \in DOMAIN view.prompts :
              LET e == StoredEntryOfWeek(view.prompts[i].week)
              IN  e # Undefined /\ ~Blank(e.content) /\ e.status = "complete"

\* the weeks listed as open questions
OpenWeekSet == {render.openWeeks[i] : i \in DOMAIN render.openWeeks}

\* C11: in the write view a catalog week is listed under "open questions" if
\* and only if its displayStatus is Open or In Progress, that is, unless its
\* entry has non-blank content and the status "complete"; the list names
\* catalog weeks only and none twice.
C11_OpenWeeksAreNotComplete ==
    page \in WritePages =>
        /\ \A i \in DOMAIN view.prompts :
              LET w == view.prompts[i].week
                  e == EntryOfWeek(w)
              IN  w \in OpenWeekSet <=>
                      ~(e # Undefined /\ ~Blank(e.content) /\ e.status = "complete")
        /\ OpenWeekSet \subseteq {view.prompts[i].week : i \in DOMAIN view.prompts}
        /\ Cardinality(OpenWeekSet) = Len(render.openWeeks)

(***************************************************************************)
(* Properties of toggleComplete, stated of Spec.                           *)
(***************************************************************************)
\* the status of the row of week w ("none" when there is no row)
StatusOfWeek(entries, w) ==
    LET rows == {i \in DOMAIN entries : entries[i].week = w}
    IN  IF rows = {} THEN "none" ELSE entries[CHOOSE i \in rows : TRUE].status

\* this step is a call of toggleComplete (a call that leaves the record as
\* it was is a repetition of the call before it and changes nothing)
ToggleCalled == last' # last /\ last'.op = "toggle"

TogglePages == {"overview_b", "overview_c", "questions_b"}

\* C13: a successful toggleComplete of an entry with non-blank content stores
\* "in_progress" if the status was "complete" and "complete" if it was
\* anything else, in storage and in the page; when the call before it was a
\* successful toggle of the same week, the normalised status is again what
\* that first call found.
C13_ToggleIsFlip ==
    [][(ToggleCalled /\ page \in TogglePages /\ last'.wrote /\ last'.ok)
       => LET w == last'.week
              flipped == IF StatusOfWeek(dbEntries, w) = "complete"
                         THEN "in_progress" ELSE "complete"
          IN  /\ ~Blank(EntryOfWeek(w).content)
              /\ StatusOfWeek(dbEntries', w) = flipped
              /\ StatusOfWeek(view'.entries, w) = flipped
              /\ last'.prev # "none" =>
                     normalizeEntryStatus(flipped) = normalizeEntryStatus(last'.prev)]_vars

\* a "draft" entry was toggled to "complete" and toggled again
C13_Witness ==
    /\ page = "overview_c"
    /\ last.op = "toggle" /\ last.wrote /\ last.ok
    /\ last.prev = "draft"
    /\ last.before = "complete"
    /\ StatusOfWeek(dbEntries, last.week) = "in_progress"

(***************************************************************************)
(* Properties of saving, stated of SpecWrite, SpecDash, SpecTick, SpecNav. *)
(***************************************************************************)
\* the update or insert of the save in flight succeeds in this step
WriteDone ==
    /\ page \in WritePages
    /\ calls # <<>> /\ calls[1].pc = "write"
    /\ calls' # <<>> /\ calls'[1].pc = "reload"

\* the update or insert of the save in flight fails in this step
WriteFailed ==
    /\ page \in WritePages
    /\ page' = page
    /\ calls # <<>> /\ calls[1].pc = "write"
    /\ calls' = <<>>

\* C14: when "Mark complete" is pressed for a week that has an entry, the
\* write changes the status of that one row and nothing else in storage
\* (title, content, categorisation and every other row stay as they are),
\* and the draft held by the page stays as it is.
C14_MarkCompleteWritesStatusOnly ==
    [][(WriteDone /\ calls[1].override /\ calls[1].closure.entry # Undefined)
       => /\ dbEntries' = SetStatus(dbEntries, calls[1].closure.entry.id, calls[1].status)
          /\ view'.title = view.title
          /\ view'.content = view.content
          /\ view'.themes = view.themes]_vars

\* C15: when "Mark complete" is pressed while the week has no stored entry or
\* the content of the draft is blank, the write inserts no row and leaves no
\* row it changed with the status "complete" and blank content.
C15_NoPhantomComplete ==
    [][(/\ WriteDone
        /\ calls[1].override
        /\ calls[1].status = "complete"
        /\ \/ StoredEntryOfWeek(calls[1].closure.prompt.week) = Undefined
           \/ Blank(calls[1].closure.content))
       => /\ Len(dbEntries') = Len(dbEntries)
          /\ \A i \in DOMAIN dbEntries :
                 dbEntries'[i] # dbEntries[i] =>
                     ~(dbEntries'[i].status = "complete" /\ Blank(dbEntries'[i].content))]_vars

\* C16: whatever saves were made, storage holds at most one entry for a week.
C16_OneEntryPerWeek ==
    \A w \in 1..MaxWeek :
        Cardinality({i \in DOMAIN dbEntries : dbEntries[i].week = w}) <= 1

\* this step is a firing of the auto-save timer
TickCalled == last' # last /\ last'.op = "tick"

\* C17: the timer fires in the write view only; its callback goes on to
\* saveInternal("auto") exactly when the draft differs from the last saved
\* snapshot and the trimmed title or the trimmed content is not empty; the
\* tick of a clean draft or of a dirty blank draft starts no save and writes
\* nothing, and a save it starts is an auto-save of the draft.
C17_TickSavesDirtyText ==
    [][TickCalled
       => /\ page \in WritePages
          /\ view.view = "write"
          /\ last'.called <=> (isDirty(view, savedSnapshotRef) /\ hasAnyText(view))
          /\ dbEntries' = dbEntries
          /\ ~last'.called => calls' = calls
          /\ (last'.called /\ ~last'.ended) =>
                 calls' = Append(calls, SaveCall("auto", view.entryStatus, FALSE, view))]_vars

\* a tick of a dirty draft with text has started an auto-save
C17_Witness ==
    /\ last.op = "tick" /\ last.called /\ ~last.ended
    /\ Len(calls) = 1
    /\ calls[1].mode = "auto" /\ calls[1].pc = "write"
    /\ isDirty(view, savedSnapshotRef)
    /\ Len(trim(view.content)) > 0

\* C18: at most one auto-save timer is set, and none when the view is not
\* "write" or the page has been left.
C18_OneTimer ==
    /\ Len(timers) <= 1
    /\ (page \notin WritePages \/ view.view # "write") => timers = <<>>

\* a dirty draft was taken to another view: the timer is cleared
C18_Witness ==
    /\ page \in WritePages
    /\ last.op = "switchView" /\ last.confirmed
    /\ view.view = "open"
    /\ isDirty(view, savedSnapshotRef)
    /\ timers = <<>>

\* a manual save ends in this step: it returned at once, its write failed, or
\* its reload is done
ManualEnded ==
    \/ last' # last /\ last'.op \in {"save", "mark"} /\ last'.ended
    \/ WriteFailed /\ calls[1].mode = "manual"
    \/ /\ page \in WritePages
       /\ calls # <<>> /\ calls[1].pc = "reload" /\ calls[1].mode = "manual"
       /\ calls' = <<>>

\* C19: a failed write of a manual save sets the error message, a failed
\* write of an auto-save leaves the message as it is, and when a manual
\* save ends the page shows a success or an error message.
C19_ManualSaveEndsWithMessage ==
    [][/\ WriteFailed =>
              IF calls[1].mode = "manual" THEN view'.message = "Save error"
              ELSE view'.message = view.message
       /\ ManualEnded => view'.message \in {"Saved", "Save error"}]_vars

NavOps == {"goToWeek", "switchView", "goToDashboard", "goToProfile", "signOut",
           "beforeunload", "weekParam"}

\* C20: every way out of a dirty draft (another week, another view, another
\* page, sign out, closing the window, a new week parameter in the URL) asks
\* to confirm first, and when the user declines the page stays as it is.
C20_DirtyNavigationAsks ==
    [][(last' # last /\ last'.op \in NavOps /\ page \in WritePages
            /\ isDirty(view, savedSnapshotRef))
       => /\ last'.asked
          /\ ~last'.confirmed => (view' = view /\ page' = page)]_vars

(***************************************************************************)
(* Properties of the weekly email job.                                     *)
(***************************************************************************)
ProfileOf(id) == CHOOSE p \in {profiles[i] : i \in DOMAIN profiles} : p.id = id

\* the profile may be sent the reminder
Eligible(p) ==
    /\ p.disabled # TRUE
    /\ p.email_paused # TRUE
    /\ Truthy(p.start_date)
    /\ ~NoEmail(p)

\* C21: every reminder the job has sent went to a profile that is enabled,
\* not email-paused and has a start date and an email address, and no
\* profile was sent two reminders in one run
C21_RemindersOnlyToEligible ==
    /\ \A k \in DOMAIN outbox :
          outbox[k].kind = "weekly" => Eligible(ProfileOf(outbox[k].id))
    /\ \A k \in DOMAIN outbox, j \in DOMAIN outbox :
          (outbox[k].id = outbox[j].id /\ outbox[k].run = outbox[j].run) => k = j

(***************************************************************************)
(* Properties of the admin endpoints.                                      *)
(***************************************************************************)
\* the request carried the token of a valid session of an administrator
AdminRequest(r) == SessionUser(r.token) \in AdminUsers

\* C22: a request to an admin endpoint that does not carry the token of a
\* valid session of a user listed in admin_users is answered with ok false
\* and status 401, 403 or 500, and reaches no table, no link generation and
\* no email; the profiles and the outbox are as before
C22_AdminEndpointsRequireAdmin ==
    [][(api' # api /\ ~AdminRequest(api'))
          => /\ api'.ok = FALSE
             /\ api'.status \in {401, 403, 500}
             /\ api'.reads = {}
             /\ api'.writes = {}
             /\ profiles' = profiles
             /\ outbox' = outbox]_vars

C22_Witness ==
    /\ api.endpoint = "auth-actions"
    /\ api.action = "set_disabled"
    /\ api.target = "user"
    /\ api.token = "user"
    /\ api.status = 403
    /\ profiles[1].disabled = FALSE

(***************************************************************************)
(* Properties of the admin aggregations.                                   *)
(***************************************************************************)
\* the number of catalog weeks of the user that displayStatus classifies as st
CountWeeks(st) == Len(OnlyStatus(AllRows(dbPrompts, dbEntries), st))

\* C23: the open, in-progress and complete counts of the admin
\* users-overview endpoint and of the admin user list are the numbers of
\* weeks of the user that displayStatus classifies as Open, In Progress and
\* Complete
C23_AdminCountsFollowDisplayStatus ==
    /\ page = "admin" =>
          /\ render.open_count = CountWeeks("Open")
          /\ render.in_progress_count = CountWeeks("In Progress")
          /\ render.complete_count = CountWeeks("Complete")
    /\ page = "admin_list" =>
          /\ render.open = CountWeeks("Open")
          /\ render.in_progress = CountWeeks("In Progress")
          /\ render.complete = CountWeeks("Complete")

\* C25: once the catalog is loaded, the week table of the admin user page
\* has exactly one row for each week of the active catalog and no row for
\* any other week
C25_OneRowPerCatalogWeek ==
    (page = "admin_user" /\ Len(view.prompts) > 0) =>
        /\ \A i \in DOMAIN dbPrompts :
              Cardinality({j \in DOMAIN render.rows :
                              render.rows[j].week = dbPrompts[i].week}) = 1
        /\ \A j \in DOMAIN render.rows :
              \E i \in DOMAIN dbPrompts : dbPrompts[i].week = render.rows[j].week

(***************************************************************************)
(* Properties of the order of the dashboard rows.                          *)
(***************************************************************************)
\* C24: on the dashboard overview, two rows of the same status bucket are
\* shown in ascending week order
C24_BucketsAscendByWeek ==
    page \in {"overview_b", "overview_c"} =>
        \A i \in DOMAIN render.rows, j \in DOMAIN render.rows :
            (i < j /\ render.rows[i].displayStatus = render.rows[j].displayStatus)
                => render.rows[i].week < render.rows[j].week

(***************************************************************************)
(* Properties of a failed toggleComplete.                                  *)
(***************************************************************************)
\* C30: when the update issued by toggleComplete fails, the status the page
\* holds for the entry is what it was before the call, an error message is
\* shown, no week is marked busy and the stored entries are unchanged
C30_FailedToggleKeepsStatus ==
    [][(ToggleCalled /\ last'.wrote /\ ~last'.ok)
       => /\ StatusOfWeek(view'.entries, last'.week)
                = StatusOfWeek(view.entries, last'.week)
          /\ view'.message # Null
          /\ view'.busyWeek = 0
          /\ dbEntries' = dbEntries]_vars

(***************************************************************************)
(* Properties of a save and the draft, stated of SpecWrite.                *)
(***************************************************************************)
\* the save in flight ends in this step after its write and its reload
SaveSucceeded ==
    /\ page \in WritePages
    /\ calls # <<>> /\ calls[1].pc = "reload"
    /\ calls' = <<>>

\* C27: when a save ends successfully, the title, content and categorisation
\* of the draft are what they were before the reload, and if they differ
\* from what the save wrote (the user typed while the save was in flight) the
\* draft is dirty afterwards
C27_SaveKeepsDraft ==
    [][SaveSucceeded
       => /\ view'.title = view.title
          /\ view'.content = view.content
          /\ view'.themes = view.themes
          /\ (view.title # calls[1].closure.title \/ view.content # calls[1].closure.content)
                => isDirty(view', savedSnapshotRef')]_vars

\* C28: in a write view the saving flag is set exactly while a save is in
\* flight, at most one save is in flight, and a save requested while the
\* flag is set starts no call and writes nothing
C28_SavingFlagIsExact ==
    [][/\ page' \in WritePages =>
             /\ isSavingRef' = (calls' # <<>>)
             /\ Len(calls') <= 1
       /\ (isSavingRef /\ last' # last /\ last'.op \in {"save", "mark", "tick"})
             => /\ calls' = calls
                /\ dbEntries' = dbEntries
                /\ isSavingRef']_vars

\* a save was requested while another was in flight, for a week with a prompt
C28_Witness ==
    /\ page \in WritePages
    /\ view.prompt # NoPrompt
    /\ last.op = "save" /\ last.ended
    /\ isSavingRef
    /\ Len(calls) = 1

(***************************************************************************)
(* Properties of the auto-save timer in time, stated of SpecLive.          *)
(***************************************************************************)
\* the write view is shown and its draft is dirty and has text
DraftNeedsSave ==
    /\ page \in WritePages
    /\ view.view = "write"
    /\ isDirty(view, savedSnapshotRef)
    /\ hasAnyText(view)

\* the interval has fired and called saveInternal("auto")
AutoSaveAttempted == last.op = "tick" /\ last.called

\* C26: when the write view is shown with a dirty draft that has text, then
\* eventually saveInternal("auto") is called or the draft stops being such
\* a draft, also while the user keeps typing
C26_AutoSaveEventually == DraftNeedsSave ~> (AutoSaveAttempted \/ ~DraftNeedsSave)

(***************************************************************************)
(* Properties of the disabled-user gate, stated of SpecGate.               *)
(***************************************************************************)
\* C29: when the user is disabled and opens a page, the user ends on the
\* login page or on the page for disabled users, also when a lookup fails;
\* no page with the user's data is shown
C29_DisabledUserIsBlocked ==
    [][(profiles[1].disabled = TRUE /\ page = "none" /\ page' # "none")
       => page' \in {"login", "disabled"}]_vars

====
